---- MODULE Spec2Model ----
(***************************************************************************)
(* Room registry, connection admission and signaling sessions of the      *)
(* mediasoup room server (src/src/express/index.ts and the Room class in   *)
(* src/unnamed/part_002).                                                  *)
(*                                                                         *)
(* Node.js runs one callback at a time, so every action below is one run   *)
(* of the event loop: it starts at an external event (a connection         *)
(* request, a websocket close, a request of a peer, the return of a call   *)
(* into the media engine, the answer of a peer) and includes everything    *)
(* the code does until each of its asynchronous functions is suspended at  *)
(* a call that needs such an external event to go on.  An await of a value *)
(* that is already there (rooms.get found the Room, protooRoom.createPeer) *)
(* is continued before any external event and is part of the same action.  *)
(*                                                                         *)
(* The actions are written over a record S of all the variables, so that   *)
(* the cascades of the code (a peer closing closes its transports, closes  *)
(* the Room, removes the registry entry, lets the next queued task run)    *)
(* are compositions of operators.                                          *)
(***************************************************************************)
EXTENDS Integers, Sequences, FiniteSets, Bags, TLC

VARIABLES
    rooms,        \* index.ts `rooms`: roomId -> Room instance (0: no entry)
    roomObjs,     \* every Room constructed so far, in order of construction
    queue,        \* index.ts `queue` (AwaitQueue): pending tasks, head is running
    creating,     \* the running task is suspended in `await Room.create(...)`
    conns,        \* every connection request received so far and its outcome
    peers,        \* every protoo Peer (signaling session) created so far
    broadcasters, \* every broadcaster object createBroadcaster has made
    transports,   \* every mediasoup transport stored in a peer's data.transports
    producers,    \* every mediasoup Producer created so far
    consumers,    \* every _createConsumer call that reached transport.consume
    dataProducers, \* every DataProducer a peer created
    dataConsumers, \* every _createDataConsumer call that reached consumeData
    requests,     \* the requests whose handler is suspended in an await
    last,         \* the request whose handler finished in the last step
    sent          \* bag of the notifications of the last step: <<to, method, about>>

vars == <<rooms, roomObjs, queue, creating, conns, peers, broadcasters,
          transports, producers, consumers, dataProducers, dataConsumers,
          requests, last, sent>>

\* ---------------------------------------------------------------- bounds
MaxConns == 3            \* connection requests received in a run
MaxTransports == 2       \* createWebRtcTransport requests in a run
MaxProducers == 1        \* produce requests that reach the engine in a run
MaxSessions == 2   \* sessions of the room in Spec
MaxDataProducers == 1    \* produceData requests that reach the engine in a run
MaxDispatchSessions == 1 \* sessions of the room in SpecDispatch
MaxDispatchTransports == 1 \* createWebRtcTransport requests in SpecDispatch
MaxInflight == 1         \* requests being handled at the same time
MaxBroadcastSessions == 3 \* sessions of the room in SpecBroadcast
MaxBroadcasters == 1     \* createBroadcaster calls that succeed in a run
MaxMediaBroadcasters == 2 \* the same in SpecBroadcaster
MaxBroadcasterConsumers == 1 \* consumers, and data consumers, a broadcaster stores
MaxJoinSessions == 3     \* sessions of the room in SpecJoin
MaxJoinTransports == 3   \* transports made in a run of SpecJoin

\* ---------------------------------------------------------------- inputs
RoomIds == {"r1", "r2"}
PeerIds == {"a", "b"}
NoId == ""               \* a query parameter that is absent from the URL
NoCaps == "undefined"    \* rtpCapabilities that were not declared
RtpCaps == {NoCaps, "audio"}   \* "audio": the audio codecs of the router only
Kinds == {"audio", "video"}
NoSecret == "undefined"  \* request.data.secret or the environment variable is absent
Secrets == {NoSecret, "", "s1", "s2"}   \* request.data.secret
EnvSecrets == {NoSecret, "s1"}          \* process.env.NETWORK_THROTTLE_SECRET

\* ---------------------------------------------------------------- state
NoArg ==
    [id |-> 0, kind |-> "", label |-> "", secret |-> NoSecret, env |-> NoSecret,
     room |-> 0, peerId |-> "", broadcaster |-> 0, target |-> 0,
     producing |-> FALSE, consuming |-> FALSE, displayName |-> "", rtpCapabilities |-> NoCaps, sctpCapabilities |-> FALSE]

NoRequest ==
    [pc |-> "free", peer |-> 0, method |-> "", arg |-> NoArg,
     accepts |-> 0, rejects |-> 0, code |-> 0, reason |-> "", result |-> {},
     caught |-> FALSE]

\* The state a step starts from: the variables, nothing sent or finished yet
\* in this step, and no request being handled (req).
Cur ==
    [rooms |-> rooms, roomObjs |-> roomObjs, queue |-> queue,
     creating |-> creating, conns |-> conns, peers |-> peers,
     broadcasters |-> broadcasters,
     transports |-> transports, producers |-> producers,
     consumers |-> consumers, dataProducers |-> dataProducers,
     dataConsumers |-> dataConsumers, requests |-> requests, last |-> NoRequest,
     sent |-> EmptyBag, req |-> NoRequest]

Apply(next) ==
    \E S \in {next} :
    /\ rooms' = S.rooms
    /\ roomObjs' = S.roomObjs
    /\ queue' = S.queue
    /\ creating' = S.creating
    /\ conns' = S.conns
    /\ peers' = S.peers
    /\ broadcasters' = S.broadcasters
    /\ transports' = S.transports
    /\ producers' = S.producers
    /\ consumers' = S.consumers
    /\ dataProducers' = S.dataProducers
    /\ dataConsumers' = S.dataConsumers
    /\ requests' = S.requests
    /\ last' = S.last
    /\ sent' = S.sent

Init ==
    /\ rooms = [r \in RoomIds |-> 0]
    /\ roomObjs = <<>>
    /\ queue = <<>>
    /\ creating = FALSE
    /\ conns = <<>>
    /\ peers = <<>>
    /\ broadcasters = <<>>
    /\ transports = <<>>
    /\ producers = <<>>
    /\ consumers = <<>>
    /\ dataProducers = <<>>
    /\ dataConsumers = <<>>
    /\ requests = [k \in 1..MaxInflight |-> NoRequest]
    /\ last = NoRequest
    /\ sent = EmptyBag

\* The members of a set of numbers in increasing order (the insertion order
\* of a Map whose keys are numbered as they are inserted).
RECURSIVE InOrder(_)
InOrder(set) ==
    IF set = {} THEN <<>>
    ELSE LET m == CHOOSE x \in set : \A y \in set : x <= y
         IN <<m>> \o InOrder(set \ {m})

\* this._protooRoom.peers of Room instance rm: protoo keeps a Peer in the map
\* from createPeer until its 'close' event.
ProtooPeers(S, rm) ==
    {s \in DOMAIN S.peers : S.peers[s].room = rm /\ ~S.peers[s].closed}

\* The first member of a set of numbers, 0 when there is none.
FirstOf(set) == IF set = {} THEN 0 ELSE CHOOSE x \in set : \A y \in set : x <= y

\* Room._getJoinedPeers({ excludePeer }); excludePeer = 0 excludes nobody.
GetJoinedPeers(S, rm, excludePeer) ==
    {s \in ProtooPeers(S, rm) : S.peers[s].joined /\ s # excludePeer}

\* this._broadcasters of Room instance rm, and this._broadcasters.get(id)
\* (0 when there is none).
Broadcasters(S, rm) ==
    {b \in DOMAIN S.broadcasters :
        S.broadcasters[b].room = rm /\ ~S.broadcasters[b].deleted}

GetBroadcaster(S, rm, id) ==
    FirstOf({b \in Broadcasters(S, rm) : S.broadcasters[b].id = id})

\* peer.notify(method, data) for every peer of `to`.
Notify(S, to, method, about) ==
    [S EXCEPT !.sent = @ (+) SetToBag({<<s, method, about>> : s \in to})]

\* ------------------------------------------------- mediasoup transports
\* Transport.close(): the transport closes with its producers and consumers;
\* the 'transportclose' listener of a consumer (_createConsumer) deletes it
\* from its peer's consumers.  The consumers of a producer that closed this
\* way are told by the worker later.
ConsumersOn(S, t) ==
    {c \in DOMAIN S.consumers :
        /\ S.consumers[c].transport = t
        /\ S.consumers[c].state \notin {"consume", "nope"}}

DataConsumersOn(S, t) ==
    {d \in DOMAIN S.dataConsumers :
        /\ S.dataConsumers[d].transport = t
        /\ S.dataConsumers[d].state \notin {"consume", "nope"}}

\* The objects of sequence objs that are on transport t (or in `gone`) close.
\* broadcaster.data.consumers / dataConsumers after the 'transportclose' of
\* those on transport t: `closed` marks an entry deleted from its Map.
DeletedOn(objs, t) ==
    [i \in DOMAIN objs |->
        IF objs[i].transport = t THEN [objs[i] EXCEPT !.closed = TRUE]
        ELSE objs[i]]

ClosedOn(objs, t, gone) ==
    [i \in DOMAIN objs |->
        IF objs[i].transport = t /\ i \in gone
        THEN [objs[i] EXCEPT !.closed = TRUE]
        ELSE objs[i]]

TransportClosed(S, t, gone, dataGone) ==
    [S EXCEPT
        !.transports[t].closed = TRUE,
        !.producers = ClosedOn(@, t, DOMAIN @),
        !.dataProducers = ClosedOn(@, t, DOMAIN @),
        !.consumers = ClosedOn(@, t, gone),
        !.dataConsumers = ClosedOn(@, t, dataGone),
        !.peers = [s \in DOMAIN S.peers |->
            [S.peers[s] EXCEPT !.consumers = @ \ gone,
                               !.dataConsumers = @ \ dataGone]],
        !.broadcasters = [b \in DOMAIN S.broadcasters |->
            [S.broadcasters[b] EXCEPT !.consumers = DeletedOn(@, t),
                                      !.dataConsumers = DeletedOn(@, t)]]]

TransportClose(S, t) ==
    IF S.transports[t].closed THEN S
    ELSE TransportClosed(S, t, ConsumersOn(S, t), DataConsumersOn(S, t))

RECURSIVE TransportsClose(_, _)
TransportsClose(S, ts) ==
    IF ts = <<>> THEN S
    ELSE TransportsClose(TransportClose(S, Head(ts)), Tail(ts))

\* The loop of the peer 'close' listener over p.data.transports.
PeerTransportsClose(S, s) ==
    TransportsClose(S, InOrder(S.peers[s].transports))

\* ------------------------------------------------------------ Room.close
\* rooms.delete(roomId), the listener getOrCreateRoom puts on the Room's 'close'.
RegistryDeleteKeep(S, rm) == S
RegistryDelete(S, rm) ==
    [S EXCEPT !.rooms[S.roomObjs[rm].roomId] = 0]

\* A request a peer was sent and has not answered fails when the peer closes
\* (protoo rejects it), which ends the _createConsumer call that waits for it.
RequestsFailed(objs, closing) ==
    [i \in DOMAIN objs |->
        IF objs[i].peer \in closing /\ objs[i].state = "request"
        THEN [objs[i] EXCEPT !.state = "failed"]
        ELSE objs[i]]

SentRequestsClose(S, closing) ==
    [S EXCEPT !.consumers = RequestsFailed(@, closing),
              !.dataConsumers = RequestsFailed(@, closing)]

\* Room.close(): _closed = true, protooRoom.close() closes every Peer (their
\* 'close' listeners see _closed and return), mediasoupRouter.close() closes
\* every transport of the router, emit('close').
ProtooRoomClose(S, rm) ==
    SentRequestsClose(
        [S EXCEPT !.peers = [s \in DOMAIN S.peers |->
                     IF S.peers[s].room = rm
                     THEN [S.peers[s] EXCEPT !.closed = TRUE]
                     ELSE S.peers[s]]],
        ProtooPeers(S, rm))

RouterClose(S, rm) ==
    TransportsClose(S, InOrder({t \in DOMAIN S.transports :
                                   S.transports[t].room = rm}))

RoomClose(S, rm) ==
    RegistryDelete(
        RouterClose(
            ProtooRoomClose([S EXCEPT !.roomObjs[rm].closed = TRUE], rm), rm),
        rm)

\* ------------------------------------------------------ Peer 'close'
\* The Room closes when the closing Peer leaves protooRoom.peers empty.
LastPeerLeftNever(S, rm) == FALSE
LastPeerLeft(S, rm) == ProtooPeers(S, rm) = {}

\* Who is told 'peerClosed' by the 'close' listener of peer s.
PeerClosedToNobody(S, s) == {}
PeerClosedTo(S, s) ==
    IF S.peers[s].joined THEN GetJoinedPeers(S, S.peers[s].room, s) ELSE {}

\* protoo Peer.close() or the closing of its websocket: the Peer leaves
\* protooRoom.peers, then the listener of handleProtooConnection runs.
RoomCloseIfEmpty(S, rm) ==
    IF LastPeerLeft(S, rm) THEN RoomClose(S, rm) ELSE S

PeerCloseListenerUnguarded(S, s) ==
    RoomCloseIfEmpty(
        PeerTransportsClose(
            Notify(S, PeerClosedTo(S, s), "peerClosed", S.peers[s].id), s),
        S.peers[s].room)
\* p.on('close', ...) of handleProtooConnection
PeerCloseListener(S, s) ==
    IF S.roomObjs[S.peers[s].room].closed THEN S
    ELSE RoomCloseIfEmpty(
            PeerTransportsClose(
                Notify(S, PeerClosedTo(S, s), "peerClosed", S.peers[s].id), s),
            S.peers[s].room)

PeerClose(S, s) ==
    IF S.peers[s].closed THEN S
    ELSE PeerCloseListener(
            SentRequestsClose([S EXCEPT !.peers[s].closed = TRUE], {s}), s)

\* ------------------------------------------- Room.handleProtooConnection
NewPeer(rm, peerId) ==
    [room |-> rm, id |-> peerId, closed |-> FALSE, joined |-> FALSE,
     displayName |-> "undefined", device |-> "undefined",
     rtpCapabilities |-> NoCaps, sctpCapabilities |-> FALSE,
     transports |-> {}, producers |-> {}, consumers |-> {},
     dataProducers |-> {}, dataConsumers |-> {}]

ExistingPeerKeep(S, existingPeer) == S
ExistingPeerClose(S, existingPeer) ==
    IF existingPeer # 0 THEN PeerClose(S, existingPeer) ELSE S

\* try { peer = await this._protooRoom.createPeer(...) } catch (error) { }
\* if (!peer) { return }: createPeer throws for a peerId that is not a
\* string (a query with the parameter given twice is parsed into an array,
\* which passes the `!peerId` test of the connection request; "a,b" stands
\* for it); the Room is left as it is.
CreatePeer(S, rm, peerId) ==
    IF peerId = "a,b" THEN S
    ELSE [S EXCEPT !.peers = Append(@, NewPeer(rm, peerId))]

\* existingPeer = this._protooRoom.getPeer(peerId), 0 when there is none.
HandleProtooConnection(S, rm, peerId) ==
    CreatePeer(
        ExistingPeerClose(S,
            FirstOf({s \in ProtooPeers(S, rm) : S.peers[s].id = peerId})),
        rm, peerId)

\* ------------------------------------------------------ getOrCreateRoom
\* rooms.get(roomId)
RoomsGetNone(S, roomId) == 0
RoomsGet(S, roomId) == S.rooms[roomId]

\* The rest of a queued task once it holds its Room: accept() and
\* room.handleProtooConnection(...); the task is then finished.
TaskDone(S) == [S EXCEPT !.queue = Tail(@)]

Admit(S, c, rm) ==
    TaskDone(HandleProtooConnection(
        [S EXCEPT !.conns[c].status = "accepted", !.conns[c].room = rm],
        rm, S.conns[c].peerId))

\* AwaitQueue: the head task runs; when it finishes the next one starts.  A
\* task whose Room is registered runs to its end at once; one that has to
\* construct the Room is suspended in Room.create.
RECURSIVE RunQueue(_)
RunQueue(S) ==
    IF S.queue = <<>> THEN [S EXCEPT !.creating = FALSE]
    ELSE IF RoomsGet(S, S.conns[Head(S.queue)].roomId) = 0
         THEN [S EXCEPT !.creating = TRUE]
         ELSE RunQueue(Admit(S, Head(S.queue),
                             RoomsGet(S, S.conns[Head(S.queue)].roomId)))

\* ------------------------------------------------------------- actions
\* if (!roomId || !peerId) { reject(400, ...); return }
ValidRoomOnly(roomId, peerId) == roomId # NoId
Valid(roomId, peerId) == roomId # NoId /\ peerId # NoId

\* protooWebSocketServer 'connectionrequest'
ConnectionRequest(roomId, peerId, max) ==
    /\ Len(conns) < max
    /\ LET c == Len(conns) + 1
           valid == Valid(roomId, peerId)
           S1 == [Cur EXCEPT !.conns = Append(@,
                    [roomId |-> roomId, peerId |-> peerId,
                     status |-> IF valid THEN "queued" ELSE "rejected",
                     code |-> IF valid THEN 0 ELSE 400,
                     room |-> 0, created |-> FALSE,
                     waiting |-> {queue[i] : i \in DOMAIN queue}])]
       IN IF ~valid THEN Apply(S1)
          ELSE LET S2 == [S1 EXCEPT !.queue = Append(@, c)]
               IN Apply(IF queue = <<>> THEN RunQueue(S2) ELSE S2)

\* `await Room.create(...)` returns the Room: it is registered, the task goes
\* on to admit its peer, and the queue goes on.
RoomCreateOk ==
    /\ creating
    /\ LET c == Head(queue)
           rm == Len(roomObjs) + 1
           S1 == [Cur EXCEPT
                    !.roomObjs = Append(@, [roomId |-> conns[c].roomId,
                                            closed |-> FALSE]),
                    !.rooms[conns[c].roomId] = rm,
                    !.conns[c].created = TRUE]
       IN Apply(RunQueue(Admit(S1, c, rm)))

\* queue.push(...).catch(error => reject(error)): protoo answers the
\* connection request with code 500; the task has left the queue.
CreateFailedRegistered(S, c) ==
    [S EXCEPT !.conns[c].status = "rejected", !.conns[c].code = 500,
              !.queue = Tail(@),
              !.roomObjs = Append(@, [roomId |-> S.conns[c].roomId,
                                      closed |-> FALSE]),
              !.rooms[S.conns[c].roomId] = Len(S.roomObjs) + 1]
CreateFailed(S, c) ==
    [S EXCEPT !.conns[c].status = "rejected", !.conns[c].code = 500,
              !.queue = Tail(@)]

RoomCreateFailStalls ==
    /\ creating
    /\ Apply([CreateFailed(Cur, Head(queue)) EXCEPT !.creating = FALSE])

\* `await Room.create(...)` throws (router, observer or bot creation failed):
\* getOrCreateRoom throws before rooms.set, the task rejects.
RoomCreateFail ==
    /\ creating
    /\ Apply(RunQueue(CreateFailed(Cur, Head(queue))))

\* The websocket of a session closes.
Disconnect(s) ==
    /\ s \in DOMAIN peers
    /\ ~peers[s].closed
    /\ Apply(PeerClose(Cur, s))

NextRegistry ==
    \/ \E roomId \in RoomIds \cup {NoId}, peerId \in PeerIds \cup {NoId} :
          ConnectionRequest(roomId, peerId, MaxConns)
    \/ RoomCreateOk
    \/ RoomCreateFail
    \/ \E s \in DOMAIN peers : Disconnect(s)

SpecRegistry == Init /\ [][NextRegistry]_vars

\* Room.create (worker.createRouter, createAudioLevelObserver, Bot.create)
\* returns or throws in the end.
SpecQueue ==
    /\ Init
    /\ [][NextRegistry]_vars
    /\ WF_vars(RoomCreateFail \/ RoomCreateOk)

\* ---------------------------------------------------------------- SpecAdmit
\* Connection requests whose peerId may have been given twice in the query
\* ("a,b" stands for the array the query parser makes of it).
NextAdmit ==
    \/ \E roomId \in RoomIds, peerId \in PeerIds \cup {"a,b"} :
          ConnectionRequest(roomId, peerId, MaxConns)
    \/ RoomCreateOk
    \/ RoomCreateFail
    \/ \E s \in DOMAIN peers : Disconnect(s)

SpecAdmit == Init /\ [][NextAdmit]_vars

\* ===================================================================
\* Requests of a peer: p.on('request') and Room._handleProtooRequest
\*
\* S.req is the request whose handler is running in the current step.  A
\* handler that reaches an await is parked in `requests` with the name of
\* the awaited call; a handler that returns or throws leaves its request
\* and the responses it got in `last`.
\* ===================================================================
FreeSlots(S) == {k \in DOMAIN S.requests : S.requests[k].pc = "free"}

\* p.on('request', (request, accept, reject) => ...)
Start(S, s, method, arg) ==
    [S EXCEPT !.req = [NoRequest EXCEPT !.pc = "run", !.peer = s,
                                        !.method = method, !.arg = arg]]

\* The handler goes on after the awaited call of the request in slot k.
Resume(S, k) ==
    [S EXCEPT !.req = S.requests[k], !.requests[k] = NoRequest]

\* accept(data) and reject(code, reason) of protoo: each sends a response.
Accept(S, result) ==
    [S EXCEPT !.req.accepts = @ + 1, !.req.result = result]
Reject(S, code, reason) ==
    [S EXCEPT !.req.rejects = @ + 1, !.req.code = code, !.req.reason = reason]

\* The handler is suspended in an `await` of the named call.
Await(S, pc) ==
    IF FreeSlots(S) = {} THEN [S EXCEPT !.req.pc = "overflow"]
    ELSE [S EXCEPT !.requests[FirstOf(FreeSlots(S))] = [S.req EXCEPT !.pc = pc]]

\* _handleProtooRequest has returned (or thrown, after Throw).
Finish(S) ==
    [S EXCEPT !.last = [S.req EXCEPT !.pc = "done",
                                     !.arg = [NoArg EXCEPT !.secret = S.req.arg.secret,
                                                           !.env = S.req.arg.env,
                                                           !.displayName =
                                                              S.req.arg.displayName,
                                                           !.id = S.req.arg.id,
                                                           !.room = S.req.arg.room,
                                                           !.peerId = S.req.arg.peerId]]]

\* `throw` inside _handleProtooRequest: the promise rejects and
\* .catch(error => reject(error)) of the 'request' listener answers.
Throw(S, reason) == Finish(Reject(S, 500, reason))

\* -------------------------------------------------------- _createConsumer
\* The codec of a producer of this kind is among the capabilities.
Decodable(caps, kind) == caps = "audio" /\ kind = "audio"

\* mediasoupRouter.canConsume({ producerId, rtpCapabilities }): the router
\* has the producer (it has not closed) and finds its codec in the
\* capabilities.
CanConsume(S, producer, caps) ==
    /\ ~S.producers[producer].closed
    /\ Decodable(caps, S.producers[producer].kind)

\* The first guard of _createConsumer.
CanReceiveAlways(S, consumerPeer, producer) == TRUE
CanReceive(S, consumerPeer, producer) ==
    /\ S.peers[consumerPeer].rtpCapabilities # NoCaps
    /\ CanConsume(S, producer, S.peers[consumerPeer].rtpCapabilities)

\* Array.from(transports).find(t => t.appData.consuming): 0 when none.
AnyTransport(S, consumerPeer) == FirstOf(DOMAIN S.transports)
ConsumingTransport(S, consumerPeer) ==
    FirstOf({t \in S.peers[consumerPeer].transports : S.transports[t].consuming})

\* transport.consume({ producerId, rtpCapabilities, paused: true }) is called;
\* `by` is the case that called _createConsumer, `requests` counts the
\* newConsumer requests sent for the consumer and `acked` tells that the peer
\* answered one positively.
Consume(S, consumerPeer, producer, transport, by) ==
    IF transport = 0 THEN S
    ELSE [S EXCEPT !.consumers = Append(@,
            [producer |-> producer, transport |-> transport,
             peer |-> consumerPeer, by |-> by, state |-> "consume",
             paused |-> TRUE, closed |-> FALSE, requests |-> 0,
             acked |-> FALSE])]

\* _createConsumer up to `await transport.consume(...)`.
CreateConsumer(S, consumerPeer, producer, by) ==
    IF ~CanReceive(S, consumerPeer, producer) THEN S
    ELSE Consume(S, consumerPeer, producer,
                 ConsumingTransport(S, consumerPeer), by)

\* for (const producer of joinedPeer.data.producers.values()) _createConsumer
RECURSIVE CreateConsumersOf(_, _, _)
CreateConsumersOf(S, consumerPeer, prods) ==
    IF prods = <<>> THEN S
    ELSE CreateConsumersOf(CreateConsumer(S, consumerPeer, Head(prods), "join"),
                           consumerPeer, Tail(prods))

\* ---------------------------------------------------- _createDataConsumer
\* The DataProducer of the bot (this._bot.dataProducer) has number 0.
BotDataProducer == 0

\* _createDataConsumer up to `await transport.consumeData(...)`.
ConsumeData(S, consumerPeer, dataProducer, transport) ==
    IF transport = 0 THEN S
    ELSE [S EXCEPT !.dataConsumers = Append(@,
            [dataProducer |-> dataProducer, transport |-> transport,
             peer |-> consumerPeer, state |-> "consume", closed |-> FALSE])]

CreateDataConsumer(S, consumerPeer, dataProducer) ==
    IF ~S.peers[consumerPeer].sctpCapabilities THEN S
    ELSE ConsumeData(S, consumerPeer, dataProducer,
                     ConsumingTransport(S, consumerPeer))

\* for (const dataProducer of joinedPeer.data.dataProducers.values()) with
\* `if (dataProducer.label === 'bot') continue`
RECURSIVE CreateDataConsumersOf(_, _, _)
CreateDataConsumersOf(S, consumerPeer, dprods) ==
    IF dprods = <<>> THEN S
    ELSE CreateDataConsumersOf(
            IF S.dataProducers[Head(dprods)].label = "bot" THEN S
            ELSE CreateDataConsumer(S, consumerPeer, Head(dprods)),
            consumerPeer, Tail(dprods))

\* for (const joinedPeer of joinedPeers) ... of case 'join'
RECURSIVE JoinConsumers(_, _, _)
JoinConsumers(S, s, joinedPeers) ==
    IF joinedPeers = <<>> THEN S
    ELSE JoinConsumers(
            CreateDataConsumersOf(
                CreateConsumersOf(S, s,
                    InOrder(S.peers[Head(joinedPeers)].producers)),
                s, InOrder(S.peers[Head(joinedPeers)].dataProducers)),
            s, Tail(joinedPeers))

\* for (const otherPeer of this._getJoinedPeers({ excludePeer: peer })) of
\* case 'produceData', label 'chat'
RECURSIVE DataFanOut(_, _, _)
DataFanOut(S, receivers, dataProducer) ==
    IF receivers = <<>> THEN S
    ELSE DataFanOut(CreateDataConsumer(S, Head(receivers), dataProducer),
                    Tail(receivers), dataProducer)

\* for (const otherPeer of this._getJoinedPeers({ excludePeer: peer })) of
\* case 'produce'
FanOutToFirst(S, receivers, producer) ==
    IF receivers = <<>> THEN S
    ELSE CreateConsumer(S, Head(receivers), producer, "produce")
RECURSIVE FanOut(_, _, _)
FanOut(S, receivers, producer) ==
    IF receivers = <<>> THEN S
    ELSE FanOut(CreateConsumer(S, Head(receivers), producer, "produce"),
                Tail(receivers), producer)

\* ------------------------------------------------------------ case 'join'
JoinGuardNone(S, s) == FALSE
JoinGuard(S, s) == S.peers[s].joined

\* peer.data.joined = true, ... of case 'join'
JoinStore(S, s, arg) ==
    [S EXCEPT !.peers[s].joined = TRUE,
              !.peers[s].displayName = arg.displayName,
              !.peers[s].device = "device",
              !.peers[s].rtpCapabilities = arg.rtpCapabilities,
              !.peers[s].sctpCapabilities = arg.sctpCapabilities]

\* joinedPeers.filter(joinedPeer => joinedPeer.id !== peer.id).map(...) over
\* the joined peers and the broadcasters: an entry is <<id, device>>, and the
\* device of a broadcaster is flagged 'broadcaster'.
PeerInfos(S, s, joinedPeers, bs) ==
    {<<S.peers[j].id, S.peers[j].device>> :
        j \in {x \in joinedPeers : S.peers[x].id # S.peers[s].id}}
    \cup {<<S.broadcasters[b].id, "broadcaster">> :
             b \in {x \in bs : S.broadcasters[x].id # S.peers[s].id}}

\* accept({ peers: peerInfos })
JoinAccept(S, s, joinedPeers) ==
    Accept(S, PeerInfos(S, s, joinedPeers, Broadcasters(S, S.peers[s].room)))

\* for (const joinedPeer of joinedPeers) ... for the broadcasters, which
\* follow the peers in joinedPeers
JoinNoBroadcasters(S, s, bs) == S
RECURSIVE JoinBroadcasterConsumers(_, _, _)
JoinBroadcasterConsumers(S, s, bs) ==
    IF bs = <<>> THEN S
    ELSE JoinBroadcasterConsumers(
            CreateDataConsumersOf(
                CreateConsumersOf(S, s,
                    InOrder(S.broadcasters[Head(bs)].producers)),
                s, InOrder(S.broadcasters[Head(bs)].dataProducers)),
            s, Tail(bs))

JoinNotify(S, s) ==
    Notify(S, GetJoinedPeers(S, S.peers[s].room, s), "newPeer", S.peers[s].id)

\* case 'join' from `const joinedPeers = ...` on
Joined(S, s, joinedPeers) ==
    Finish(JoinNotify(
        CreateDataConsumer(
            JoinBroadcasterConsumers(
                JoinConsumers(JoinAccept(S, s, joinedPeers), s,
                              InOrder(joinedPeers)),
                s, InOrder(Broadcasters(S, S.peers[s].room))),
            s, BotDataProducer),
        s))

JoinAfterStore(S, s) == Joined(S, s, GetJoinedPeers(S, S.peers[s].room, 0))

HandleJoin(S) ==
    IF JoinGuard(S, S.req.peer) THEN Throw(S, "Peer already joined")
    ELSE JoinAfterStore(JoinStore(S, S.req.peer, S.req.arg), S.req.peer)

\* ------------------------------------------- case 'createWebRtcTransport'
\* up to `await this._mediasoupRouter.createWebRtcTransport(...)`
HandleCreateWebRtcTransport(S) == Await(S, "createWebRtcTransport")

TransportStore(S, s, arg) ==
    [S EXCEPT
        !.transports = Append(@,
            [room |-> S.peers[s].room, producing |-> arg.producing,
             consuming |-> arg.consuming, closed |-> FALSE]),
        !.peers[s].transports = @ \cup {Len(S.transports) + 1}]

\* The router made the transport (and enableTraceEvent returned): it is
\* stored, the request accepted, and setMaxIncomingBitrate is awaited.
CreateWebRtcTransportStored(S) ==
    Await(Accept(TransportStore(S, S.req.peer, S.req.arg), {}),
          "setMaxIncomingBitrate")

\* try { await transport.setMaxIncomingBitrate(...) } catch (error) { }
SetMaxIncomingBitrateUncaught(S, ok) ==
    IF ok THEN Finish(S) ELSE Throw(S, "engine")
SetMaxIncomingBitrateDone(S, ok) ==
    Finish(IF ok THEN S ELSE [S EXCEPT !.req.caught = TRUE])

\* --------------------------------------------------------- case 'produce'
ProduceGuardNone(S, s) == FALSE
ProduceGuard(S, s) == ~S.peers[s].joined

\* up to `await transport.produce(...)`
HandleProduce(S) ==
    IF ProduceGuard(S, S.req.peer) THEN Throw(S, "Peer not yet joined")
    ELSE IF S.req.arg.id \notin S.peers[S.req.peer].transports
         THEN Throw(S, "transport not found")
         ELSE Await(S, "produce")

\* `peerId` is appData.peerId and `observed` tells that the producer was
\* added to the audioLevelObserver, which the end of the case does for an
\* audio producer.
ProducerStore(S, s, arg) ==
    [S EXCEPT
        !.producers = Append(@,
            [transport |-> arg.id, kind |-> arg.kind, peer |-> s,
             broadcaster |-> 0, closed |-> FALSE,
             peerId |-> S.peers[s].id, observed |-> arg.kind = "audio"]),
        !.peers[s].producers = @ \cup {Len(S.producers) + 1}]

ProduceFanOutToNobody(S, s) == {}
ProduceFanOutToAll(S, s) == GetJoinedPeers(S, S.peers[s].room, 0)
\* Who gets a consumer for a new producer of peer s.
ProduceFanOutTo(S, s) == GetJoinedPeers(S, S.peers[s].room, s)

\* case 'produce' from accept({ id: producer.id }) on; the new producer is
\* the last of S.producers.
Produced(S, s) ==
    Finish(FanOut(Accept(S, {Len(S.producers)}),
                  InOrder(ProduceFanOutTo(S, s)), Len(S.producers)))

\* transport.produce returned the Producer: it is stored, the request is
\* accepted and a consumer is made for every other joined peer.
ProduceStored(S) ==
    Produced(ProducerStore(S, S.req.peer, S.req.arg), S.req.peer)

\* ----------------------------------------- case 'getRouterRtpCapabilities'
HandleGetRouterRtpCapabilities(S) == Finish(Accept(S, {}))

\* ------------------------------------------------ cases that look up an id
\* The cases that find an object of the peer by the id of the request, await
\* one call on it and accept: where they look, and whether they start with
\* `if (!peer.data.joined) throw new Error('Peer not yet joined')`.
Lookup ==
    [connectWebRtcTransport     |-> [in |-> "transports",    joined |-> FALSE],
     restartIce                 |-> [in |-> "transports",    joined |-> FALSE],
     pauseProducer              |-> [in |-> "producers",     joined |-> TRUE],
     resumeProducer             |-> [in |-> "producers",     joined |-> TRUE],
     pauseConsumer              |-> [in |-> "consumers",     joined |-> TRUE],
     resumeConsumer             |-> [in |-> "consumers",     joined |-> TRUE],
     setConsumerPreferredLayers |-> [in |-> "consumers",     joined |-> TRUE],
     setConsumerPriority        |-> [in |-> "consumers",     joined |-> TRUE],
     requestConsumerKeyFrame    |-> [in |-> "consumers",     joined |-> TRUE],
     getTransportStats          |-> [in |-> "transports",    joined |-> FALSE],
     getProducerStats           |-> [in |-> "producers",     joined |-> FALSE],
     getConsumerStats           |-> [in |-> "consumers",     joined |-> FALSE],
     getDataProducerStats       |-> [in |-> "dataProducers", joined |-> FALSE],
     getDataConsumerStats       |-> [in |-> "dataConsumers", joined |-> FALSE]]

\* peer.data.<collection>.get(id) is defined
FoundInRoom(S, s, collection, id) ==
    \E u \in DOMAIN S.peers :
       S.peers[u].room = S.peers[s].room /\ id \in S.peers[u][collection]
Found(S, s, collection, id) == id \in S.peers[s][collection]

NotJoinedGuardOff(S, s) == FALSE
NotJoinedGuard(S, s) == ~S.peers[s].joined

\* up to the `await` of the call on the object found
HandleLookup(S) ==
    IF Lookup[S.req.method].joined /\ NotJoinedGuard(S, S.req.peer)
    THEN Throw(S, "Peer not yet joined")
    ELSE IF ~Found(S, S.req.peer, Lookup[S.req.method].in, S.req.arg.id)
         THEN Throw(S, "not found")
         ELSE Await(S, "call")

\* The object the awaited call of request r is made on, and whether the
\* engine still has it.
Target(S, r) == S[Lookup[r.method].in][r.arg.id]

\* What the call has done in the engine when it returns.
Called(S) ==
    IF S.req.method = "pauseConsumer"
    THEN [S EXCEPT !.consumers[S.req.arg.id].paused = TRUE]
    ELSE IF S.req.method = "resumeConsumer"
         THEN [S EXCEPT !.consumers[S.req.arg.id].paused = FALSE]
         ELSE S

\* the call returned: accept(...)
LookupCalled(S) == Finish(Accept(Called(S), {}))

\* --------------------------------------------------- case 'closeProducer'
\* producer.close(); peer.data.producers.delete(producer.id)
ProducerClose(S, s, producer) ==
    [S EXCEPT !.producers[producer].closed = TRUE,
              !.peers[s].producers = @ \ {producer}]

HandleCloseProducer(S) ==
    IF NotJoinedGuard(S, S.req.peer) THEN Throw(S, "Peer not yet joined")
    ELSE IF ~Found(S, S.req.peer, "producers", S.req.arg.id)
         THEN Throw(S, "not found")
         ELSE Finish(Accept(ProducerClose(S, S.req.peer, S.req.arg.id), {}))

\* ----------------------------------------------------- case 'produceData'
\* up to `await transport.produceData(...)`
HandleProduceData(S) ==
    IF NotJoinedGuard(S, S.req.peer) THEN Throw(S, "Peer not yet joined")
    ELSE IF ~Found(S, S.req.peer, "transports", S.req.arg.id)
         THEN Throw(S, "not found")
         ELSE Await(S, "produceData")

\* `bot` tells that the bot was given the data producer
\* (handlePeerDataProducer consumes it on the bot's own transport).
DataProducerStore(S, s, arg) ==
    [S EXCEPT
        !.dataProducers = Append(@,
            [transport |-> arg.id, label |-> arg.label, peer |-> s,
             closed |-> FALSE, bot |-> FALSE]),
        !.peers[s].dataProducers = @ \cup {Len(S.dataProducers) + 1}]

DataProducedAnyLabel(S, s, label) ==
    Finish(DataFanOut(Accept(S, {Len(S.dataProducers)}),
                      InOrder(GetJoinedPeers(S, S.peers[s].room, s)),
                      Len(S.dataProducers)))
\* switch (dataProducer.label): 'chat' makes a DataConsumer for every other
\* joined peer, 'bot' hands the DataProducer to the bot, any other label
\* does nothing.
DataProduced(S, s, label) ==
    Finish(CASE label = "chat" ->
                  DataFanOut(Accept(S, {Len(S.dataProducers)}),
                             InOrder(GetJoinedPeers(S, S.peers[s].room, s)),
                             Len(S.dataProducers))
             [] label = "bot" ->
                  [Accept(S, {Len(S.dataProducers)})
                      EXCEPT !.dataProducers[Len(S.dataProducers)].bot = TRUE]
             [] OTHER -> Accept(S, {Len(S.dataProducers)}))

ProduceDataStored(S) ==
    DataProduced(DataProducerStore(S, S.req.peer, S.req.arg), S.req.peer,
                 S.req.arg.label)

\* ----------------------------- cases 'changeDisplayName', 'mixerDataChanged'
\* Who is told 'peerDisplayNameChanged' about peer s.
DisplayNameChangedToAll(S, s) == GetJoinedPeers(S, S.peers[s].room, 0)
DisplayNameChangedTo(S, s) == GetJoinedPeers(S, S.peers[s].room, s)

\* The notification carries { peerId, displayName, oldDisplayName }, the
\* last being what peer.data.displayName was before it is stored.
HandleChangeDisplayName(S) ==
    IF NotJoinedGuard(S, S.req.peer) THEN Throw(S, "Peer not yet joined")
    ELSE Finish(Accept(
            Notify([S EXCEPT !.peers[S.req.peer].displayName =
                                S.req.arg.displayName],
                   DisplayNameChangedTo(S, S.req.peer),
                   "peerDisplayNameChanged",
                   <<S.peers[S.req.peer].id, S.req.arg.displayName,
                     S.peers[S.req.peer].displayName>>),
            {}))

HandleMixerDataChanged(S) ==
    IF NotJoinedGuard(S, S.req.peer) THEN Throw(S, "Peer not yet joined")
    ELSE Finish(Accept(
            Notify(S, GetJoinedPeers(S, S.peers[S.req.peer].room, S.req.peer),
                   "mixerDataChanged", S.peers[S.req.peer].id),
            {}))

\* ----------------- cases 'applyNetworkThrottle' and 'resetNetworkThrottle'
\* !(!secret || secret !== process.env.NETWORK_THROTTLE_SECRET); arg.env is
\* the value of the environment variable the handler reads.
AllowedIfPresent(secret, env) == secret \notin {NoSecret, ""}
Allowed(secret, env) == secret \notin {NoSecret, ""} /\ secret = env

HandleThrottle(S) ==
    IF ~Allowed(S.req.arg.secret, S.req.arg.env)
    THEN Finish(Reject(S, 403, "operation NOT allowed"))
    ELSE Await(S, "throttle")

\* try { await throttle.start/stop(...); accept(null) }
\* catch (error) { reject(500, error.toString()) }
Throttled(S, ok) ==
    Finish(IF ok THEN Accept(S, {}) ELSE Reject(S, 500, "throttle"))

\* ---------------------------------------------------------------- default
DefaultIgnore(S) == Finish(S)
DefaultAccept(S) == Finish(Accept(S, {}))
DefaultReject(S) == Finish(Reject(S, 500, "unknown request.method"))

\* ------------------------------------ switch (request.method)
ThrottleMethods == {"applyNetworkThrottle", "resetNetworkThrottle"}

HandleProtooRequest(S) ==
    CASE S.req.method = "getRouterRtpCapabilities" ->
            HandleGetRouterRtpCapabilities(S)
      [] S.req.method = "join" -> HandleJoin(S)
      [] S.req.method = "createWebRtcTransport" -> HandleCreateWebRtcTransport(S)
      [] S.req.method = "produce" -> HandleProduce(S)
      [] S.req.method = "closeProducer" -> HandleCloseProducer(S)
      [] S.req.method = "produceData" -> HandleProduceData(S)
      [] S.req.method = "changeDisplayName" -> HandleChangeDisplayName(S)
      [] S.req.method = "mixerDataChanged" -> HandleMixerDataChanged(S)
      [] S.req.method \in DOMAIN Lookup -> HandleLookup(S)
      [] S.req.method \in ThrottleMethods -> HandleThrottle(S)
      [] OTHER -> DefaultReject(S)

\* --------------------------------------------- _createConsumer, continued
\* transport.consume returned the paused Consumer: it is stored and the
\* newConsumer request is sent to the peer (it fails at once if the peer has
\* closed).
ConsumerStored(S, c) ==
    IF S.peers[S.consumers[c].peer].closed
    THEN [S EXCEPT !.peers[S.consumers[c].peer].consumers = @ \cup {c},
                   !.consumers[c].state = "failed"]
    ELSE [S EXCEPT !.peers[S.consumers[c].peer].consumers = @ \cup {c},
                   !.consumers[c].requests = @ + 1,
                   !.consumers[c].state = "request"]

\* The outcome of `await consumerPeer.request('newConsumer', ...)`.
ResumeAlways(S, c, ok) == [S EXCEPT !.consumers[c].state = "resume"]
NewConsumerAnswered(S, c, ok) ==
    [S EXCEPT !.consumers[c].state = IF ok THEN "resume" ELSE "failed"]

\* The outcome of `await consumer.resume()`.
ConsumerResumed(S, c, ok) ==
    IF ok THEN Notify([S EXCEPT !.consumers[c].state = "resumed",
                                !.consumers[c].paused = FALSE],
                      {S.consumers[c].peer}, "consumerScore", c)
    ELSE [S EXCEPT !.consumers[c].state = "failed"]

\* _createDataConsumer, continued: consumeData returned the DataConsumer, it
\* is stored and the newDataConsumer request is sent to the peer.
DataConsumerStored(S, d) ==
    [S EXCEPT
        !.peers[S.dataConsumers[d].peer].dataConsumers = @ \cup {d},
        !.dataConsumers[d].state =
            IF S.peers[S.dataConsumers[d].peer].closed THEN "failed"
            ELSE "request"]

ConsumerProducerClosedQuietly(S, c) ==
    [S EXCEPT !.consumers[c].closed = TRUE,
              !.peers[S.consumers[c].peer].consumers = @ \ {c}]
\* consumer.on('producerclose', ...): the worker tells the consumer that its
\* producer closed; the consumer closes.
ConsumerProducerClosed(S, c) ==
    Notify([S EXCEPT !.consumers[c].closed = TRUE,
                     !.peers[S.consumers[c].peer].consumers = @ \ {c}],
           {S.consumers[c].peer}, "consumerClosed", c)

\* ===================================================================
\* Broadcasters: the methods of Room that an HTTP API calls for a peer
\* without a signaling session.  A call is handled like a request: S.req is
\* the call that is running, a call suspended in the engine is parked in
\* `requests`, and a call whose promise has resolved (accepts) or rejected
\* (rejects) is left in `last`.  Its peer is 0.
\* ===================================================================
\* A method of Room called from outside resolves with a result or rejects
\* with the Error it threw.
Resolved(S, result) == Finish(Accept(S, result))

\* const broadcaster = { id, data: { ..., rtpCapabilities, transports: new
\* Map(), ... } }; this._broadcasters.set(broadcaster.id, broadcaster)
BroadcasterStore(S, rm, id, rtpCapabilities) ==
    [S EXCEPT !.broadcasters = Append(@,
        [room |-> rm, id |-> id, rtpCapabilities |-> rtpCapabilities,
         deleted |-> FALSE, transports |-> {}, producers |-> {},
         dataProducers |-> {}, consumers |-> <<>>, dataConsumers |-> <<>>])]

\* createBroadcaster: the list of peers is filled only for a broadcaster
\* that provided rtpCapabilities.
HandleCreateBroadcaster(S) ==
    LET rm == S.req.arg.room
        id == S.req.arg.peerId
    IN IF id = NoId THEN Throw(S, "missing body.id")
       ELSE IF GetBroadcaster(S, rm, id) # 0
            THEN Throw(S, "broadcaster already exists")
            ELSE Resolved(
                    Notify(BroadcasterStore(S, rm, id, S.req.arg.rtpCapabilities),
                           GetJoinedPeers(S, rm, 0), "newPeer", id),
                    IF S.req.arg.rtpCapabilities = NoCaps THEN {}
                    ELSE {<<S.peers[j].id, S.peers[j].device>> :
                             j \in GetJoinedPeers(S, rm, 0)})

\* deleteBroadcaster
BroadcasterDeleted(S, rm, b) ==
    Notify([TransportsClose(S, InOrder(S.broadcasters[b].transports))
               EXCEPT !.broadcasters[b].deleted = TRUE],
           GetJoinedPeers(S, rm, 0), "peerClosed", S.broadcasters[b].id)

HandleDeleteBroadcaster(S) ==
    LET b == GetBroadcaster(S, S.req.arg.room, S.req.arg.peerId)
    IN IF b = 0 THEN Throw(S, "broadcaster does not exist")
       ELSE Resolved(BroadcasterDeleted(S, S.req.arg.room, b), {})

\* createBroadcasterTransport up to the await of the router; the call holds
\* the broadcaster object it found while it is suspended.
HandleCreateBroadcasterTransport(S) ==
    LET b == GetBroadcaster(S, S.req.arg.room, S.req.arg.peerId)
    IN IF b = 0 THEN Throw(S, "broadcaster does not exist")
       ELSE Await([S EXCEPT !.req.arg.broadcaster = b], "broadcasterTransport")

\* broadcaster.data.transports.set(transport.id, transport); the transports
\* of a broadcaster carry no appData.
BroadcasterTransportStored(S) ==
    Resolved(
        [S EXCEPT
            !.transports = Append(@,
                [room |-> S.req.arg.room, producing |-> FALSE,
                 consuming |-> FALSE, closed |-> FALSE]),
            !.broadcasters[S.req.arg.broadcaster].transports =
                @ \cup {Len(S.transports) + 1}],
        {Len(S.transports) + 1})

\* createBroadcasterProducer up to `await transport.produce(...)`
HandleCreateBroadcasterProducer(S) ==
    LET b == GetBroadcaster(S, S.req.arg.room, S.req.arg.peerId)
    IN IF b = 0 THEN Throw(S, "broadcaster does not exist")
       ELSE IF S.req.arg.id \notin S.broadcasters[b].transports
            THEN Throw(S, "transport does not exist")
            ELSE Await([S EXCEPT !.req.arg.broadcaster = b], "broadcasterProduce")

BroadcastFanOutTwice(S, receivers, producer) ==
    IF receivers = <<>> THEN S
    ELSE CreateConsumer(CreateConsumer(S, Head(receivers), producer, "broadcast"),
                        Head(receivers), producer, "broadcast")
\* for (const peer of this._getJoinedPeers()) of createBroadcasterProducer
RECURSIVE BroadcastFanOut(_, _, _)
BroadcastFanOut(S, receivers, producer) ==
    IF receivers = <<>> THEN S
    ELSE BroadcastFanOut(
            CreateConsumer(S, Head(receivers), producer, "broadcast"),
            Tail(receivers), producer)

\* broadcaster.data.producers.set(producer.id, producer), then a consumer
\* for every joined peer; transport.produce({ kind, rtpParameters }) is given
\* no appData, so appData.peerId of the producer is undefined.
BroadcasterProduced(S) ==
    LET S1 == [S EXCEPT
                 !.producers = Append(@,
                     [transport |-> S.req.arg.id, kind |-> S.req.arg.kind,
                      peer |-> 0, broadcaster |-> S.req.arg.broadcaster,
                      closed |-> FALSE, peerId |-> "undefined",
                      observed |-> S.req.arg.kind = "audio"]),
                 !.broadcasters[S.req.arg.broadcaster].producers =
                     @ \cup {Len(S.producers) + 1}]
    IN Resolved(BroadcastFanOut(S1,
                    InOrder(GetJoinedPeers(S1, S.req.arg.room, 0)),
                    Len(S1.producers)),
                {Len(S1.producers)})

\* if (!broadcaster.data.rtpCapabilities) throw ...
NoBroadcasterCapsNever(S, b) == FALSE
NoBroadcasterCaps(S, b) == S.broadcasters[b].rtpCapabilities = NoCaps

\* createBroadcasterConsumer and createBroadcasterDataConsumer up to the
\* await of transport.consume / transport.consumeData
HandleCreateBroadcasterConsumer(S, pc) ==
    LET b == GetBroadcaster(S, S.req.arg.room, S.req.arg.peerId)
    IN IF b = 0 THEN Throw(S, "broadcaster does not exist")
       ELSE IF NoBroadcasterCaps(S, b)
            THEN Throw(S, "broadcaster does not have rtpCapabilities")
            ELSE IF S.req.arg.id \notin S.broadcasters[b].transports
                 THEN Throw(S, "transport does not exist")
                 ELSE Await([S EXCEPT !.req.arg.broadcaster = b], pc)

\* broadcaster.data.consumers.set(consumer.id, consumer)
BroadcasterConsumerStored(S) ==
    Resolved(
        [S EXCEPT !.broadcasters[S.req.arg.broadcaster].consumers =
            Append(@, [producer |-> S.req.arg.target,
                       transport |-> S.req.arg.id, closed |-> FALSE])],
        {})

\* broadcaster.data.dataConsumers.set(dataConsumer.id, dataConsumer)
BroadcasterDataConsumerStored(S) ==
    Resolved(
        [S EXCEPT !.broadcasters[S.req.arg.broadcaster].dataConsumers =
            Append(@, [dataProducer |-> S.req.arg.target,
                       transport |-> S.req.arg.id, closed |-> FALSE])],
        {})

HandleRoomCall(S) ==
    CASE S.req.method = "createBroadcaster" -> HandleCreateBroadcaster(S)
      [] S.req.method = "deleteBroadcaster" -> HandleDeleteBroadcaster(S)
      [] S.req.method = "createBroadcasterTransport" ->
            HandleCreateBroadcasterTransport(S)
      [] S.req.method = "createBroadcasterProducer" ->
            HandleCreateBroadcasterProducer(S)
      [] S.req.method = "createBroadcasterConsumer" ->
            HandleCreateBroadcasterConsumer(S, "broadcasterConsume")
      [] S.req.method = "createBroadcasterDataConsumer" ->
            HandleCreateBroadcasterConsumer(S, "broadcasterConsumeData")

\* ------------------------------------------------------------- actions
Awaiting(S, pc) == Cardinality({k \in DOMAIN S.requests : S.requests[k].pc = pc})

\* The bounds of a run: the objects made so far and being made.
WithinBounds(S) ==
    /\ S.req.pc # "overflow"
    /\ Len(S.producers) + Awaiting(S, "produce")
          + Awaiting(S, "broadcasterProduce") <= MaxProducers
    /\ Len(S.dataProducers) + Awaiting(S, "produceData") <= MaxDataProducers

\* Session s receives a request: the 'request' listener of its Peer calls
\* _handleProtooRequest, which runs to its first await or to its end.
Request(s, method, arg) ==
    /\ s \in DOMAIN peers /\ ~peers[s].closed
    /\ \E S \in {HandleProtooRequest(Start(Cur, s, method, arg))} :
          WithinBounds(S) /\ Apply(S)

ReqJoin(s, displayName, rtpCapabilities, sctpCapabilities) ==
    Request(s, "join", [NoArg EXCEPT !.displayName = displayName,
                                     !.rtpCapabilities = rtpCapabilities,
                                     !.sctpCapabilities = sctpCapabilities])

ReqCreateWebRtcTransport(s, producing, consuming, max) ==
    /\ Len(transports) + Awaiting(Cur, "createWebRtcTransport") < max
    /\ Request(s, "createWebRtcTransport",
               [NoArg EXCEPT !.producing = producing, !.consuming = consuming])

ReqProduce(s, transportId, kind) ==
    Request(s, "produce", [NoArg EXCEPT !.id = transportId, !.kind = kind])

ReqProduceData(s, transportId, label) ==
    Request(s, "produceData", [NoArg EXCEPT !.id = transportId, !.label = label])

ReqChangeDisplayName(s, displayName) ==
    Request(s, "changeDisplayName", [NoArg EXCEPT !.displayName = displayName])

ReqThrottle(s, method, secret, env) ==
    Request(s, method, [NoArg EXCEPT !.secret = secret, !.env = env])

\* A request that carries the id of an object, or nothing.
ReqOther(s, method, id) == Request(s, method, [NoArg EXCEPT !.id = id])

\* createWebRtcTransport (or enableTraceEvent) returns or throws; a closed
\* router makes no transport.
CreateWebRtcTransportReturn(k, ok) ==
    /\ requests[k].pc = "createWebRtcTransport"
    /\ ok => ~roomObjs[peers[requests[k].peer].room].closed
    /\ Apply(IF ok THEN CreateWebRtcTransportStored(Resume(Cur, k))
             ELSE Throw(Resume(Cur, k), "engine"))

SetMaxIncomingBitrateReturn(k, ok) ==
    /\ requests[k].pc = "setMaxIncomingBitrate"
    /\ Apply(SetMaxIncomingBitrateDone(Resume(Cur, k), ok))

ProduceReturnStoring(k, ok) ==
    /\ requests[k].pc = "produce"
    /\ Apply(IF ok THEN ProduceStored(Resume(Cur, k))
             ELSE Throw(ProducerStore(Resume(Cur, k), requests[k].peer,
                                      requests[k].arg), "engine"))
\* transport.produce returns or throws; a closed transport makes no producer.
ProduceReturn(k, ok) ==
    /\ requests[k].pc = "produce"
    /\ ok => ~transports[requests[k].arg.id].closed
    /\ Apply(IF ok THEN ProduceStored(Resume(Cur, k))
             ELSE Throw(Resume(Cur, k), "engine"))

ProduceDataReturn(k, ok) ==
    /\ requests[k].pc = "produceData"
    /\ ok => ~transports[requests[k].arg.id].closed
    /\ Apply(IF ok THEN ProduceDataStored(Resume(Cur, k))
             ELSE Throw(Resume(Cur, k), "engine"))

\* The call of a lookup case returns or throws; it throws when its object has
\* closed.
CallReturn(k, ok) ==
    /\ requests[k].pc = "call"
    /\ ok => ~Target(Cur, requests[k]).closed
    /\ Apply(IF ok THEN LookupCalled(Resume(Cur, k))
             ELSE Throw(Resume(Cur, k), "engine"))

ThrottleReturn(k, ok) ==
    /\ requests[k].pc = "throttle"
    /\ Apply(Throttled(Resume(Cur, k), ok))

\* transport.consume returns or throws; it throws when the transport or the
\* producer has closed.
ConsumeReturn(c, ok) ==
    /\ c \in DOMAIN consumers
    /\ consumers[c].state = "consume"
    /\ ok => /\ ~transports[consumers[c].transport].closed
             /\ ~producers[consumers[c].producer].closed
    /\ Apply(IF ok THEN ConsumerStored(Cur, c)
             ELSE [Cur EXCEPT !.consumers[c].state = "nope"])

\* The peer answers the newConsumer request (ok), or rejects it or lets it
\* time out.
NewConsumerResponse(c, ok) ==
    /\ c \in DOMAIN consumers
    /\ consumers[c].state = "request"
    /\ Apply(NewConsumerAnswered([Cur EXCEPT !.consumers[c].acked = ok], c, ok))

\* consumer.resume() returns or throws; it throws when the consumer has closed.
ResumeReturn(c, ok) ==
    /\ c \in DOMAIN consumers
    /\ consumers[c].state = "resume"
    /\ ok => ~consumers[c].closed
    /\ Apply(ConsumerResumed(Cur, c, ok))

\* The 'producerclose' event of a consumer whose producer has closed.
ConsumerProducerClose(c) ==
    /\ c \in DOMAIN consumers
    /\ consumers[c].state \notin {"consume", "nope"}
    /\ ~consumers[c].closed
    /\ producers[consumers[c].producer].closed
    /\ Apply(ConsumerProducerClosed(Cur, c))

\* transport.consumeData returns or throws.
ConsumeDataReturn(d, ok) ==
    /\ d \in DOMAIN dataConsumers
    /\ dataConsumers[d].state = "consume"
    /\ ok => /\ ~transports[dataConsumers[d].transport].closed
             /\ dataConsumers[d].dataProducer # BotDataProducer =>
                    ~dataProducers[dataConsumers[d].dataProducer].closed
    /\ Apply(IF ok THEN DataConsumerStored(Cur, d)
             ELSE [Cur EXCEPT !.dataConsumers[d].state = "nope"])

\* The peer answers the newDataConsumer request, or it fails.
NewDataConsumerResponse(d, ok) ==
    /\ d \in DOMAIN dataConsumers
    /\ dataConsumers[d].state = "request"
    /\ Apply([Cur EXCEPT !.dataConsumers[d].state =
                            IF ok THEN "done" ELSE "failed"])

\* dataConsumer.on('dataproducerclose', ...): the worker tells a data
\* consumer that its data producer closed; the data consumer closes, leaves
\* its Map and the peer is notified.
DataConsumerProducerClose(d) ==
    /\ d \in DOMAIN dataConsumers
    /\ dataConsumers[d].state \notin {"consume", "nope"}
    /\ ~dataConsumers[d].closed
    /\ dataConsumers[d].dataProducer # BotDataProducer
    /\ dataProducers[dataConsumers[d].dataProducer].closed
    /\ Apply(Notify([Cur EXCEPT
                       !.dataConsumers[d].closed = TRUE,
                       !.peers[dataConsumers[d].peer].dataConsumers = @ \ {d}],
                   {dataConsumers[d].peer}, "dataConsumerClosed", d))

\* ------------------------------------------- _handleAudioLevelObserver
\* The 'volumes' event of the audioLevelObserver of Room rm, with producer p
\* the loudest of the producers added to it: every joined peer is notified
\* with appData.peerId of the producer.
AudioVolumes(rm, p) ==
    /\ rm \in DOMAIN roomObjs /\ ~roomObjs[rm].closed
    /\ p \in DOMAIN producers
    /\ producers[p].observed /\ ~producers[p].closed
    /\ rm = IF producers[p].peer # 0 THEN peers[producers[p].peer].room
            ELSE broadcasters[producers[p].broadcaster].room
    /\ Apply(Notify(Cur, GetJoinedPeers(Cur, rm, 0), "activeSpeaker",
                    producers[p].peerId))

\* The 'silence' event: every joined peer is notified with peerId null.
AudioSilence(rm) ==
    /\ rm \in DOMAIN roomObjs /\ ~roomObjs[rm].closed
    /\ Apply(Notify(Cur, GetJoinedPeers(Cur, rm, 0), "activeSpeaker", "null"))

\* ------------------------------------------------- broadcaster actions
\* A caller that holds the open Room rm calls one of its broadcaster methods;
\* the call runs to its first await or to its end.
RoomCall(rm, method, arg) ==
    /\ rm \in DOMAIN roomObjs
    /\ ~roomObjs[rm].closed
    /\ \E S \in {HandleRoomCall(Start(Cur, 0, method, [arg EXCEPT !.room = rm]))} :
          WithinBounds(S) /\ Apply(S)

CreateBroadcaster(rm, id, rtpCapabilities, max) ==
    /\ Len(broadcasters) < max
    /\ RoomCall(rm, "createBroadcaster",
                [NoArg EXCEPT !.peerId = id, !.rtpCapabilities = rtpCapabilities])

DeleteBroadcaster(rm, id) ==
    RoomCall(rm, "deleteBroadcaster", [NoArg EXCEPT !.peerId = id])

CreateBroadcasterTransport(rm, id, max) ==
    /\ Len(transports) + Awaiting(Cur, "createWebRtcTransport")
          + Awaiting(Cur, "broadcasterTransport") < max
    /\ RoomCall(rm, "createBroadcasterTransport", [NoArg EXCEPT !.peerId = id])

CreateBroadcasterProducer(rm, id, transportId, kind) ==
    RoomCall(rm, "createBroadcasterProducer",
             [NoArg EXCEPT !.peerId = id, !.id = transportId, !.kind = kind])

\* A run stores at most max consumers and max data consumers per
\* broadcaster.
CreateBroadcasterConsumer(rm, id, transportId, producerId, max) ==
    /\ \A b \in DOMAIN broadcasters : Len(broadcasters[b].consumers) < max
    /\ RoomCall(rm, "createBroadcasterConsumer",
                [NoArg EXCEPT !.peerId = id, !.id = transportId,
                              !.target = producerId])

CreateBroadcasterDataConsumer(rm, id, transportId, dataProducerId, max) ==
    /\ \A b \in DOMAIN broadcasters : Len(broadcasters[b].dataConsumers) < max
    /\ RoomCall(rm, "createBroadcasterDataConsumer",
                [NoArg EXCEPT !.peerId = id, !.id = transportId,
                              !.target = dataProducerId])

\* createWebRtcTransport / createPlainTransport returns or throws; a closed
\* router makes no transport.
BroadcasterTransportReturn(k, ok) ==
    /\ requests[k].pc = "broadcasterTransport"
    /\ ok => ~roomObjs[requests[k].arg.room].closed
    /\ Apply(IF ok THEN BroadcasterTransportStored(Resume(Cur, k))
             ELSE Throw(Resume(Cur, k), "engine"))

BroadcasterProduceReturn(k, ok) ==
    /\ requests[k].pc = "broadcasterProduce"
    /\ ok => ~transports[requests[k].arg.id].closed
    /\ Apply(IF ok THEN BroadcasterProduced(Resume(Cur, k))
             ELSE Throw(Resume(Cur, k), "engine"))

\* transport.consume returns or throws; it throws when the transport has
\* closed, when the router has no such producer and when the capabilities
\* of the broadcaster cannot consume it.
BroadcasterConsumeReturn(k, ok) ==
    /\ requests[k].pc = "broadcasterConsume"
    /\ ok => /\ ~transports[requests[k].arg.id].closed
             /\ requests[k].arg.target \in DOMAIN producers
             /\ CanConsume(Cur, requests[k].arg.target,
                   broadcasters[requests[k].arg.broadcaster].rtpCapabilities)
    /\ Apply(IF ok THEN BroadcasterConsumerStored(Resume(Cur, k))
             ELSE Throw(Resume(Cur, k), "engine"))

BroadcasterConsumeDataReturn(k, ok) ==
    /\ requests[k].pc = "broadcasterConsumeData"
    /\ ok => /\ ~transports[requests[k].arg.id].closed
             /\ \/ requests[k].arg.target = BotDataProducer
                \/ /\ requests[k].arg.target \in DOMAIN dataProducers
                   /\ ~dataProducers[requests[k].arg.target].closed
    /\ Apply(IF ok THEN BroadcasterDataConsumerStored(Resume(Cur, k))
             ELSE Throw(Resume(Cur, k), "engine"))

\* consumer.on('producerclose', ...) of createBroadcasterConsumer: the
\* worker tells a consumer of a broadcaster that its producer closed.
BroadcasterConsumerProducerClose(b, i) ==
    /\ b \in DOMAIN broadcasters
    /\ i \in DOMAIN broadcasters[b].consumers
    /\ ~broadcasters[b].consumers[i].closed
    /\ producers[broadcasters[b].consumers[i].producer].closed
    /\ Apply([Cur EXCEPT !.broadcasters[b].consumers[i].closed = TRUE])

\* ----------------------------------------------------------------- Spec
\* The media of one room: connections, disconnections, the join,
\* createWebRtcTransport and produce requests, the engine's returns and the
\* peers' answers in any order.
Next ==
    \/ \E peerId \in PeerIds : ConnectionRequest("r1", peerId, MaxSessions)
    \/ RoomCreateOk
    \/ RoomCreateFail
    \/ \E s \in DOMAIN peers : Disconnect(s)
    \/ \E s \in DOMAIN peers, rc \in RtpCaps : ReqJoin(s, "n1", rc, FALSE)
    \/ \E s \in DOMAIN peers, consuming \in BOOLEAN :
          ReqCreateWebRtcTransport(s, ~consuming, consuming, MaxTransports)
    \/ \E k \in 1..MaxInflight, ok \in BOOLEAN : CreateWebRtcTransportReturn(k, ok)
    \/ \E k \in 1..MaxInflight, ok \in BOOLEAN : SetMaxIncomingBitrateReturn(k, ok)
    \/ \E s \in DOMAIN peers, t \in 1..MaxTransports, kind \in Kinds :
          ReqProduce(s, t, kind)
    \/ \E k \in 1..MaxInflight, ok \in BOOLEAN : ProduceReturn(k, ok)
    \/ \E c \in DOMAIN consumers, ok \in BOOLEAN : ConsumeReturn(c, ok)
    \/ \E c \in DOMAIN consumers, ok \in BOOLEAN : NewConsumerResponse(c, ok)
    \/ \E c \in DOMAIN consumers, ok \in BOOLEAN : ResumeReturn(c, ok)
    \/ \E c \in DOMAIN consumers : ConsumerProducerClose(c)

Spec == Init /\ [][Next]_vars

\* ------------------------------------------------------------ SpecDispatch
\* Every method of the protocol, requested by the peers of a small room.
NextDispatch ==
    \/ ConnectionRequest("r1", "a", MaxDispatchSessions)
    \/ RoomCreateOk
    \/ RoomCreateFail
    \/ \E s \in DOMAIN peers : Disconnect(s)
    \/ \E s \in DOMAIN peers, sctp \in BOOLEAN : ReqJoin(s, "n1", "audio", sctp)
    \/ \E s \in DOMAIN peers, consuming \in BOOLEAN :
          ReqCreateWebRtcTransport(s, ~consuming, consuming, MaxDispatchTransports)
    \/ \E s \in DOMAIN peers, t \in 1..MaxDispatchTransports :
          ReqProduce(s, t, "audio")
    \/ \E s \in DOMAIN peers, t \in 1..MaxDispatchTransports, label \in {"chat", "bot"} :
          ReqProduceData(s, t, label)
    \/ \E s \in DOMAIN peers : ReqChangeDisplayName(s, "n2")
    \/ \E s \in DOMAIN peers, m \in ThrottleMethods, secret \in {NoSecret, "s1"} :
          ReqThrottle(s, m, secret, "s1")
    \/ \E s \in DOMAIN peers,
          m \in DOMAIN Lookup \cup {"getRouterRtpCapabilities", "closeProducer",
                                    "mixerDataChanged", "bogus"} :
          ReqOther(s, m, 1)
    \/ \E k \in 1..MaxInflight, ok \in BOOLEAN : CreateWebRtcTransportReturn(k, ok)
    \/ \E k \in 1..MaxInflight, ok \in BOOLEAN : SetMaxIncomingBitrateReturn(k, ok)
    \/ \E k \in 1..MaxInflight, ok \in BOOLEAN : ProduceReturn(k, ok)
    \/ \E k \in 1..MaxInflight, ok \in BOOLEAN : ProduceDataReturn(k, ok)
    \/ \E k \in 1..MaxInflight, ok \in BOOLEAN : CallReturn(k, ok)
    \/ \E k \in 1..MaxInflight, ok \in BOOLEAN : ThrottleReturn(k, ok)
    \/ \E d \in DOMAIN dataConsumers, ok \in BOOLEAN : ConsumeDataReturn(d, ok)
    \/ \E d \in DOMAIN dataConsumers, ok \in BOOLEAN : NewDataConsumerResponse(d, ok)

SpecDispatch == Init /\ [][NextDispatch]_vars

\* Every call a suspended handler awaits (into the engine, into the throttle
\* tool) returns or throws in the end.
SpecLive ==
    /\ Init
    /\ [][NextDispatch]_vars
    /\ \A k \in 1..MaxInflight :
          WF_vars(\E ok \in BOOLEAN :
                     \/ CreateWebRtcTransportReturn(k, ok)
                     \/ SetMaxIncomingBitrateReturn(k, ok)
                     \/ ProduceReturn(k, ok)
                     \/ ProduceDataReturn(k, ok)
                     \/ CallReturn(k, ok)
                     \/ ThrottleReturn(k, ok))

\* ----------------------------------------------------------- SpecBroadcast
\* The peers and the broadcasters of one room: who is told about whom.
NextBroadcast ==
    \/ \E peerId \in {"a", "b", "c"} :
          ConnectionRequest("r1", peerId, MaxBroadcastSessions)
    \/ RoomCreateOk
    \/ \E s \in DOMAIN peers : Disconnect(s)
    \/ \E s \in DOMAIN peers : ReqJoin(s, "n1", "audio", FALSE)
    \/ \E s \in DOMAIN peers, displayName \in {"n2"} :
          ReqChangeDisplayName(s, displayName)
    \/ \E rm \in DOMAIN roomObjs, id \in {"a", "d"} :
          CreateBroadcaster(rm, id, "audio", MaxBroadcasters)
    \/ \E rm \in DOMAIN roomObjs, id \in {"a", "d"} : DeleteBroadcaster(rm, id)

SpecBroadcast == Init /\ [][NextBroadcast]_vars

\* --------------------------------------------------------- SpecBroadcaster
\* One peer that produces and a broadcaster that consumes and produces.
NextBroadcaster ==
    \/ ConnectionRequest("r1", "a", MaxDispatchSessions)
    \/ RoomCreateOk
    \/ \E s \in DOMAIN peers : Disconnect(s)
    \/ \E s \in DOMAIN peers : ReqJoin(s, "n1", "audio", FALSE)
    \/ \E s \in DOMAIN peers :
          ReqCreateWebRtcTransport(s, TRUE, FALSE, MaxTransports)
    \/ \E k \in 1..MaxInflight, ok \in BOOLEAN : CreateWebRtcTransportReturn(k, ok)
    \/ \E k \in 1..MaxInflight, ok \in BOOLEAN : SetMaxIncomingBitrateReturn(k, ok)
    \/ \E s \in DOMAIN peers, t \in 1..MaxTransports : ReqProduce(s, t, "audio")
    \/ \E k \in 1..MaxInflight, ok \in BOOLEAN : ProduceReturn(k, ok)
    \/ \E s \in DOMAIN peers : ReqOther(s, "closeProducer", 1)
    \/ \E rm \in DOMAIN roomObjs, rc \in RtpCaps :
          CreateBroadcaster(rm, "d", rc, MaxMediaBroadcasters)
    \/ \E rm \in DOMAIN roomObjs : DeleteBroadcaster(rm, "d")
    \/ \E rm \in DOMAIN roomObjs : CreateBroadcasterTransport(rm, "d", MaxTransports)
    \/ \E rm \in DOMAIN roomObjs, t \in 1..MaxTransports :
          CreateBroadcasterProducer(rm, "d", t, "audio")
    \/ \E rm \in DOMAIN roomObjs, t \in 1..MaxTransports :
          CreateBroadcasterConsumer(rm, "d", t, 1, MaxBroadcasterConsumers)
    \/ \E rm \in DOMAIN roomObjs, t \in 1..MaxTransports :
          CreateBroadcasterDataConsumer(rm, "d", t, BotDataProducer,
                                        MaxBroadcasterConsumers)
    \/ \E k \in 1..MaxInflight, ok \in BOOLEAN : BroadcasterTransportReturn(k, ok)
    \/ \E k \in 1..MaxInflight, ok \in BOOLEAN : BroadcasterProduceReturn(k, ok)
    \/ \E k \in 1..MaxInflight, ok \in BOOLEAN : BroadcasterConsumeReturn(k, ok)
    \/ \E k \in 1..MaxInflight, ok \in BOOLEAN : BroadcasterConsumeDataReturn(k, ok)
    \/ \E b \in DOMAIN broadcasters, i \in 1..MaxBroadcasterConsumers :
          BroadcasterConsumerProducerClose(b, i)

SpecBroadcaster == Init /\ [][NextBroadcaster]_vars

\* -------------------------------------------------------------- SpecLookup
\* Two sessions of one room, "a" producing and "b" consuming, and methods
\* that name an object by id, one of every collection: a transport is
\* connected, a producer paused and closed, a consumer resumed, the stats of
\* a data producer and of a data consumer read.
NextLookup ==
    \/ ConnectionRequest("r1", IF conns = <<>> THEN "a" ELSE "b", MaxSessions)
    \/ RoomCreateOk
    \/ \E s \in DOMAIN peers : ReqJoin(s, "n1", "audio", TRUE)
    \/ \E s \in DOMAIN peers :
          ReqCreateWebRtcTransport(s, s = 1, s # 1, MaxTransports)
    \/ \E k \in 1..MaxInflight : CreateWebRtcTransportReturn(k, TRUE)
    \/ \E k \in 1..MaxInflight : SetMaxIncomingBitrateReturn(k, TRUE)
    \/ \E s \in DOMAIN peers : ReqProduce(s, 1, "audio")
    \/ \E k \in 1..MaxInflight : ProduceReturn(k, TRUE)
    \/ \E s \in DOMAIN peers : ReqProduceData(s, 1, "chat")
    \/ \E k \in 1..MaxInflight : ProduceDataReturn(k, TRUE)
    \/ \E s \in DOMAIN peers,
          m \in {"connectWebRtcTransport", "pauseProducer", "resumeConsumer",
                 "getDataProducerStats", "getDataConsumerStats", "closeProducer"} :
          ReqOther(s, m, 1)
    \/ \E k \in 1..MaxInflight, ok \in BOOLEAN : CallReturn(k, ok)
    \/ \E c \in DOMAIN consumers : ConsumeReturn(c, TRUE)
    \/ \E c \in DOMAIN consumers : NewConsumerResponse(c, TRUE)
    \/ \E c \in DOMAIN consumers : ResumeReturn(c, TRUE)
    \/ \E c \in DOMAIN consumers : ConsumerProducerClose(c)
    \/ \E d \in DOMAIN dataConsumers : ConsumeDataReturn(d, TRUE)
    \/ \E d \in DOMAIN dataConsumers : NewDataConsumerResponse(d, TRUE)

SpecLookup == Init /\ [][NextLookup]_vars

\* ---------------------------------------------------------------- SpecJoin
\* Two sessions "a", "b" and the broadcaster "d" of one room: "a" or "d"
\* produces, "a" produces data, "b" holds a consuming transport before or
\* after it joins and answers the consumer handshake, and the audio level
\* observer reports.
NextJoin ==
    \/ ConnectionRequest("r1", IF conns = <<>> THEN "a" ELSE "b", MaxSessions)
    \/ RoomCreateOk
    \/ \E s \in DOMAIN peers, sctp \in BOOLEAN : ReqJoin(s, "n1", "audio", sctp)
    \/ \E s \in DOMAIN peers :
          ReqCreateWebRtcTransport(s, s = 1, s # 1, MaxJoinTransports)
    \/ \E k \in 1..MaxInflight : CreateWebRtcTransportReturn(k, TRUE)
    \/ \E k \in 1..MaxInflight : SetMaxIncomingBitrateReturn(k, TRUE)
    \/ \E kind \in Kinds : ReqProduce(1, 1, kind)
    \/ \E k \in 1..MaxInflight : ProduceReturn(k, TRUE)
    \/ \E label \in {"chat", "bot"} : ReqProduceData(1, 1, label)
    \/ \E k \in 1..MaxInflight : ProduceDataReturn(k, TRUE)
    \/ \E rm \in DOMAIN roomObjs : CreateBroadcaster(rm, "d", "audio", MaxBroadcasters)
    \/ \E rm \in DOMAIN roomObjs :
          CreateBroadcasterTransport(rm, "d", MaxJoinTransports)
    \/ \E k \in 1..MaxInflight : BroadcasterTransportReturn(k, TRUE)
    \/ \E rm \in DOMAIN roomObjs, t \in 1..MaxJoinTransports :
          CreateBroadcasterProducer(rm, "d", t, "audio")
    \/ \E k \in 1..MaxInflight : BroadcasterProduceReturn(k, TRUE)
    \/ \E rm \in DOMAIN roomObjs, p \in DOMAIN producers : AudioVolumes(rm, p)
    \/ \E rm \in DOMAIN roomObjs : AudioSilence(rm)
    \/ \E c \in DOMAIN consumers : ConsumeReturn(c, TRUE)
    \/ \E c \in DOMAIN consumers : NewConsumerResponse(c, TRUE)
    \/ \E c \in DOMAIN consumers : ResumeReturn(c, TRUE)

SpecJoin == Init /\ [][NextJoin]_vars

\* -------------------------------------------------------------- SpecFanOut
\* Three sessions "a", "b", "c" of one room that connect, join and create
\* their transports in this order, "c" joining then or at any later time;
\* "a" produces media and data on its producing transport while "b" and "c"
\* hold a consuming transport each, and every step of the consumer and data
\* consumer handshakes succeeds or fails.
NextFanOut ==
    \/ ConnectionRequest("r1", IF conns = <<>> THEN "a"
                               ELSE IF Len(conns) = 1 THEN "b" ELSE "c",
                         MaxJoinSessions)
    \/ RoomCreateOk
    \/ \E s \in DOMAIN peers :
          /\ Len(peers) = MaxJoinSessions
          /\ \A x \in 1..(s - 1) : peers[x].joined
          /\ s = MaxJoinSessions \/ transports = <<>>
          /\ ReqJoin(s, "n1", "audio", TRUE)
    \/ \E s \in DOMAIN peers :
          /\ \A x \in 1..(MaxJoinSessions - 1) :
                x \in DOMAIN peers /\ ~peers[x].closed /\ peers[x].joined
          /\ Len(transports) = s - 1
          /\ ReqCreateWebRtcTransport(s, s = 1, s # 1, MaxJoinTransports)
    \/ \E k \in 1..MaxInflight : CreateWebRtcTransportReturn(k, TRUE)
    \/ \E k \in 1..MaxInflight : SetMaxIncomingBitrateReturn(k, TRUE)
    \/ Len(transports) = MaxJoinTransports /\ ReqProduce(1, 1, "audio")
    \/ \E k \in 1..MaxInflight, ok \in BOOLEAN : ProduceReturn(k, ok)
    \/ \E label \in {"chat", "bot", "other"} :
          Len(transports) = MaxJoinTransports /\ ReqProduceData(1, 1, label)
    \/ \E k \in 1..MaxInflight, ok \in BOOLEAN : ProduceDataReturn(k, ok)
    \/ \E c \in DOMAIN consumers, ok \in BOOLEAN : ConsumeReturn(c, ok)
    \/ \E c \in DOMAIN consumers, ok \in BOOLEAN : NewConsumerResponse(c, ok)
    \/ \E c \in DOMAIN consumers : ResumeReturn(c, TRUE)
    \/ \E d \in DOMAIN dataConsumers, ok \in BOOLEAN : ConsumeDataReturn(d, ok)
    \/ \E d \in DOMAIN dataConsumers, ok \in BOOLEAN : NewDataConsumerResponse(d, ok)

SpecFanOut == Init /\ [][NextFanOut]_vars

\* --------------------------------------------------------------- SpecClose
\* Two sessions of one room that connect and create their transports in
\* this order and join at any time; "a" produces media and data, "b"
\* consumes them, "a" closes its producer, either session disconnects, and
\* the worker tells the consumers and data consumers of a closed producer.
NextClose ==
    \/ ConnectionRequest("r1", IF conns = <<>> THEN "a" ELSE "b", MaxSessions)
    \/ RoomCreateOk
    \/ \E s \in DOMAIN peers :
          Len(peers) = MaxSessions /\ ReqJoin(s, "n1", "audio", TRUE)
    \/ \E s \in DOMAIN peers :
          /\ Len(transports) = s - 1
          /\ ReqCreateWebRtcTransport(s, s = 1, s # 1, MaxTransports)
    \/ \E k \in 1..MaxInflight : CreateWebRtcTransportReturn(k, TRUE)
    \/ \E k \in 1..MaxInflight : SetMaxIncomingBitrateReturn(k, TRUE)
    \/ Len(transports) = MaxTransports /\ ReqProduce(1, 1, "audio")
    \/ \E k \in 1..MaxInflight : ProduceReturn(k, TRUE)
    \/ Len(transports) = MaxTransports /\ ReqProduceData(1, 1, "chat")
    \/ \E k \in 1..MaxInflight : ProduceDataReturn(k, TRUE)
    \/ \E c \in DOMAIN consumers : ConsumeReturn(c, TRUE)
    \/ \E c \in DOMAIN consumers : NewConsumerResponse(c, TRUE)
    \/ \E c \in DOMAIN consumers : ResumeReturn(c, TRUE)
    \/ \E d \in DOMAIN dataConsumers : ConsumeDataReturn(d, TRUE)
    \/ \E d \in DOMAIN dataConsumers : NewDataConsumerResponse(d, TRUE)
    \/ ReqOther(1, "closeProducer", 1)
    \/ \E s \in DOMAIN peers : Disconnect(s)
    \/ \E c \in DOMAIN consumers : ConsumerProducerClose(c)
    \/ \E d \in DOMAIN dataConsumers : DataConsumerProducerClose(d)

SpecClose == Init /\ [][NextClose]_vars

\* ------------------------------------------------------------ SpecThrottle
\* The throttle requests of two sessions, with every secret and environment.
NextThrottle ==
    \/ \E peerId \in PeerIds : ConnectionRequest("r1", peerId, MaxSessions)
    \/ RoomCreateOk
    \/ \E s \in DOMAIN peers : Disconnect(s)
    \/ \E s \in DOMAIN peers, m \in ThrottleMethods,
          secret \in Secrets, env \in EnvSecrets : ReqThrottle(s, m, secret, env)
    \/ \E k \in 1..MaxInflight, ok \in BOOLEAN : ThrottleReturn(k, ok)

SpecThrottle == Init /\ [][NextThrottle]_vars

\* ===================================================================
\* Properties
\* ===================================================================
Accepted(c) == conns[c].status = "accepted"
Decided(c) == conns[c].status # "queued"
SameRoomId(c1, c2) == conns[c1].roomId = conns[c2].roomId
\* c2 arrived while c1 was still waiting in the queue.
Concurrent(c1, c2) == c1 \in conns[c2].waiting
OpenRooms == {rm \in DOMAIN roomObjs : ~roomObjs[rm].closed}

\* C1 as stated: any two connection requests for the same roomId of which the
\* second arrived while the first was still queued are handed the same Room
\* instance (exactly one Room is constructed for them).  Stated for requests
\* that all carry different (roomId, peerId) pairs, so that no session is
\* superseded.
C1_Original ==
    (\A c1, c2 \in DOMAIN conns :
        c1 # c2 => ~(SameRoomId(c1, c2) /\ conns[c1].peerId = conns[c2].peerId))
    => \A c1, c2 \in DOMAIN conns :
          (Concurrent(c1, c2) /\ SameRoomId(c1, c2) /\ Accepted(c1) /\ Accepted(c2))
          => conns[c1].room = conns[c2].room

\* C1 amended: the queued tasks are decided one at a time in arrival order;
\* every Room is constructed by exactly one request; two admitted requests
\* for the same roomId are handed the same Room instance unless the Room
\* handed to the earlier one has closed; an admitted request that did not
\* construct its Room was handed the Room an earlier request constructed.
C1_Serialized ==
    /\ \A i \in DOMAIN queue : ~Decided(queue[i])
    /\ \A i, j \in DOMAIN queue : i < j => queue[i] < queue[j]
    /\ \A c \in DOMAIN conns : ~Decided(c) => \E i \in DOMAIN queue : queue[i] = c
    /\ \A rm \in DOMAIN roomObjs :
          Cardinality({c \in DOMAIN conns : conns[c].created /\ conns[c].room = rm}) = 1
    /\ \A c1, c2 \in DOMAIN conns :
          (c1 < c2 /\ SameRoomId(c1, c2) /\ Accepted(c1) /\ Accepted(c2)
             /\ conns[c1].room # conns[c2].room)
          => roomObjs[conns[c1].room].closed
    /\ \A c2 \in DOMAIN conns :
          (Accepted(c2) /\ ~conns[c2].created)
          => \E c1 \in DOMAIN conns :
                c1 < c2 /\ conns[c1].created /\ conns[c1].room = conns[c2].room

\* Two requests for the same roomId that were queued together, the first
\* constructed the Room and the second was handed that same instance.
C1_Witness ==
    \E c1, c2 \in DOMAIN conns :
       /\ Concurrent(c1, c2) /\ SameRoomId(c1, c2)
       /\ Accepted(c1) /\ Accepted(c2)
       /\ conns[c1].created /\ ~conns[c2].created
       /\ conns[c1].room = conns[c2].room

\* C2: the registry maps a room id only to an open Room of that id, an open
\* Room is the one registered under its id, a closed Room has no entry, and no
\* two open Rooms share an id.
C2_RegistryInv ==
    /\ \A r \in RoomIds :
          rooms[r] # 0 =>
             /\ rooms[r] \in DOMAIN roomObjs
             /\ ~roomObjs[rooms[r]].closed
             /\ roomObjs[rooms[r]].roomId = r
    /\ \A rm \in OpenRooms : rooms[roomObjs[rm].roomId] = rm
    /\ \A rm1, rm2 \in OpenRooms :
          roomObjs[rm1].roomId = roomObjs[rm2].roomId => rm1 = rm2

\* A Room was closed and a new Room with the same id is registered.
C2_Witness ==
    \E rm1, rm2 \in DOMAIN roomObjs :
       /\ rm1 < rm2
       /\ roomObjs[rm1].roomId = roomObjs[rm2].roomId
       /\ roomObjs[rm1].closed
       /\ rooms[roomObjs[rm2].roomId] = rm2

\* C3: in a step in which a session of an open Room closes (its websocket
\* closed, or one connection superseded it), the Room is closed afterwards
\* exactly when the closing left it without sessions, and a Room closed that
\* way has no registry entry.
C3_LastDisconnectClosesRoom ==
    [][\A s \in DOMAIN peers :
         LET rm == peers[s].room
             left == {p \in ProtooPeers(Cur, rm) : ~peers'[p].closed}
         IN (/\ ~peers[s].closed /\ peers'[s].closed
             /\ ~roomObjs[rm].closed
             /\ Len(peers') <= Len(peers) + 1)
            => /\ roomObjs'[rm].closed <=> left = {}
               /\ roomObjs'[rm].closed => rooms'[roomObjs[rm].roomId] # rm
       ]_vars

\* A Room that was closed by its last session, and a Room that is open after
\* one of its sessions closed.
C3_Witness ==
    /\ \E s \in DOMAIN peers : peers[s].closed /\ roomObjs[peers[s].room].closed
    /\ \E s, t \in DOMAIN peers :
          /\ peers[s].room = peers[t].room
          /\ peers[s].closed /\ ~peers[t].closed
          /\ ~roomObjs[peers[s].room].closed

\* ------------------------------------------------------ requests
\* The request whose handler finished in the last step.
Finished(method) == last.pc = "done" /\ last.method = method
Outcomes(r) == r.accepts + r.rejects

\* C4: a join of a session that has joined is rejected with the error 'Peer
\* already joined' (code 500) and leaves the session, with its collections,
\* as it was; a join of a session that has not joined is accepted and makes
\* it joined; joined never goes back to false.  So no session has two joins
\* accepted.
C4_JoinOneShot ==
    [][\A s \in DOMAIN peers :
         /\ peers[s].joined => peers'[s].joined
         /\ (last'.pc = "done" /\ last'.method = "join" /\ last'.peer = s) =>
               IF peers[s].joined
               THEN /\ last'.accepts = 0 /\ last'.rejects = 1
                    /\ last'.code = 500 /\ last'.reason = "Peer already joined"
                    /\ peers'[s] = peers[s]
                    /\ consumers' = consumers /\ dataConsumers' = dataConsumers
               ELSE /\ last'.accepts = 1 /\ last'.rejects = 0
                    /\ peers'[s].joined
      ]_vars

\* A joined session whose join has just been rejected.
C4_Witness ==
    /\ Finished("join")
    /\ last.rejects = 1 /\ last.reason = "Peer already joined"
    /\ peers[last.peer].joined /\ ~peers[last.peer].closed

\* C5: a produce request of a session that has not joined is rejected in the
\* step in which it is received: it is not suspended in transport.produce, no
\* producer is made or stored, and no consumer is made.
C5_ProduceBeforeJoin ==
    [][\A s \in DOMAIN peers :
         ~peers[s].joined =>
            /\ \A k \in DOMAIN requests :
                  (requests'[k].pc = "produce" /\ requests'[k].peer = s)
                  => requests'[k] = requests[k]
            /\ (last'.pc = "done" /\ last'.method = "produce" /\ last'.peer = s)
               => /\ last'.accepts = 0 /\ last'.rejects = 1
                  /\ last'.reason = "Peer not yet joined"
                  /\ producers' = producers
                  /\ peers' = peers
                  /\ consumers' = consumers
                  /\ requests' = requests
      ]_vars

\* A session that has a transport but has not joined, and whose produce
\* request has just been rejected.
C5_Witness ==
    /\ Finished("produce")
    /\ last.rejects = 1 /\ last.reason = "Peer not yet joined"
    /\ ~peers[last.peer].joined
    /\ \E t \in peers[last.peer].transports : transports[t].producing

\* A _createConsumer call that passed its guards and whose transport.consume
\* has returned or thrown.
Attempted(c) == consumers[c].state # "consume"
StillOpen(c) ==
    /\ ~peers[consumers[c].peer].closed
    /\ ~transports[consumers[c].transport].closed
    /\ ~producers[consumers[c].producer].closed

\* C6 as stated: when a peer produces, a joined peer with receive
\* capabilities, a consuming transport and able to consume is sent exactly
\* one newConsumer request (stated for peers, transports and producers that
\* are still open); the consumer is paused until the peer has acknowledged.
C6_Original ==
    \A c \in DOMAIN consumers :
       /\ (consumers[c].by = "produce" /\ Attempted(c) /\ StillOpen(c))
             => consumers[c].requests = 1
       /\ consumers[c].state \in {"resume", "resumed"} => consumers[c].acked
       /\ ~consumers[c].paused => consumers[c].state = "resumed"

\* C6 amended: for a producer and such a peer at most one newConsumer request
\* is sent, and exactly one once transport.consume has returned the consumer
\* and the peer is still connected; the consumer is created paused, and
\* consumer.resume() is called only after the peer has acknowledged the
\* request positively, never before and never when the request failed.
C6_NewConsumerThenResume ==
    /\ \A c \in DOMAIN consumers :
          /\ consumers[c].requests <= 1
          /\ consumers[c].state \in {"consume", "nope"} => consumers[c].requests = 0
          /\ consumers[c].state \in {"request", "resume", "resumed"}
                => consumers[c].requests = 1
          /\ consumers[c].state = "failed"
                => consumers[c].requests = 1 \/ peers[consumers[c].peer].closed
          /\ consumers[c].state \in {"resume", "resumed"} => consumers[c].acked
          /\ ~consumers[c].paused => consumers[c].state = "resumed"
    /\ \A c1, c2 \in DOMAIN consumers :
          (consumers[c1].producer = consumers[c2].producer
             /\ consumers[c1].peer = consumers[c2].peer) => c1 = c2

\* A produced, B (joined before) was sent the newConsumer request, answered
\* it, and the consumer was resumed.
C6_Witness ==
    \E c \in DOMAIN consumers :
       /\ consumers[c].by = "produce"
       /\ consumers[c].state = "resumed"
       /\ consumers[c].requests = 1 /\ consumers[c].acked
       /\ ~consumers[c].paused

\* C7: a step makes a consumer in the engine only for a peer that has
\* declared receive capabilities with which the router can consume the
\* producer, and on a transport of that peer that is flagged consuming; only
\* consumers made that way are in a peer's collection or announced to it.
C7_FanOutGuards ==
    [][/\ \A c \in DOMAIN consumers' \ DOMAIN consumers :
             LET receiver == consumers'[c].peer
                 producer == consumers'[c].producer
             IN /\ peers'[receiver].rtpCapabilities # NoCaps
                /\ ~producers'[producer].closed
                /\ Decodable(peers'[receiver].rtpCapabilities,
                             producers'[producer].kind)
                /\ consumers'[c].transport \in peers'[receiver].transports
                /\ transports'[consumers'[c].transport].consuming
                /\ consumers'[c].requests = 0
       /\ \A s \in DOMAIN peers' :
             \A c \in peers'[s].consumers :
                c \in DOMAIN consumers' /\ consumers'[c].peer = s
       /\ \A c \in DOMAIN consumers :
             consumers'[c].requests > consumers[c].requests
                => c \in peers'[consumers[c].peer].consumers
      ]_vars

\* The peers the fan-out of producer p has reached: they and the producer's
\* peer are joined and connected, so either the produce or the join called
\* _createConsumer for them.
Reached(p) ==
    {s \in DOMAIN peers :
        /\ s # producers[p].peer
        /\ peers[s].room = peers[producers[p].peer].room
        /\ peers[s].joined /\ ~peers[s].closed
        /\ peers[producers[p].peer].joined /\ ~peers[producers[p].peer].closed}

NoConsumerFor(p, s) ==
    \A c \in DOMAIN consumers :
        ~(consumers[c].producer = p /\ consumers[c].peer = s)

\* The fan-out reached a peer that has a consuming transport but cannot
\* consume the producer, and made no consumer for it.
C7_Witness ==
    \E p \in DOMAIN producers :
       \E s \in Reached(p) :
          /\ peers[s].rtpCapabilities # NoCaps
          /\ ~producers[p].closed
          /\ ~CanConsume(Cur, p, peers[s].rtpCapabilities)
          /\ ConsumingTransport(Cur, s) # 0
          /\ NoConsumerFor(p, s)

\* C8: in a step in which a session of an open Room closes, every other
\* joined peer of the Room is sent peerClosed with its id once if the session
\* had joined, nobody is sent peerClosed if it had not, and every transport
\* of the session is closed afterwards.
PeerClosedSent(S, to, id) == CopiesIn(<<to, "peerClosed", id>>, S)

C8_PeerClosedOnce ==
    [][\A a \in DOMAIN peers :
         (~peers[a].closed /\ peers'[a].closed
             /\ ~roomObjs[peers[a].room].closed)
         => /\ \A b \in DOMAIN peers :
                  PeerClosedSent(sent', b, peers[a].id) =
                     IF /\ peers[a].joined
                        /\ b \in GetJoinedPeers(Cur, peers[a].room, a)
                     THEN 1 ELSE 0
            /\ \A t \in peers[a].transports : transports'[t].closed
      ]_vars

\* A joined session with a transport has closed, and the other joined peer
\* has just been sent peerClosed.
C8_Witness ==
    \E a, b \in DOMAIN peers :
       /\ peers[a].closed /\ peers[a].joined
       /\ peers[a].transports # {}
       /\ ~peers[b].closed /\ peers[b].joined
       /\ PeerClosedSent(sent, b, peers[a].id) = 1

\* C9: no request has got more than one response: accept and reject are
\* never both called, and neither is called twice, for the requests whose
\* handler is suspended and for the request whose handler has just finished.
C9_AtMostOneOutcome ==
    /\ Outcomes(last) <= 1
    /\ \A k \in DOMAIN requests : Outcomes(requests[k]) <= 1

\* A createWebRtcTransport request was accepted, setMaxIncomingBitrate then
\* threw, and the handler finished with the one response.
C9_Witness ==
    /\ Finished("createWebRtcTransport")
    /\ last.caught
    /\ last.accepts = 1 /\ last.rejects = 0

SameSession(P, s1, s2) == P[s1].room = P[s2].room /\ P[s1].id = P[s2].id

\* C12: of the sessions a Room has had under one peerId only the newest can
\* be open; a step that registers a session has closed every older session
\* of that Room and peerId, the session it registers is fresh (joined =
\* false, the five collections empty), and the newest one it registers
\* under a peerId is open afterwards.
C12_LastWriterWins ==
    /\ [](\A s1, s2 \in DOMAIN peers :
             (s1 < s2 /\ SameSession(peers, s1, s2)) => peers[s1].closed)
    /\ [][\A n \in DOMAIN peers' \ DOMAIN peers :
            /\ [peers'[n] EXCEPT !.closed = FALSE]
                  = NewPeer(peers'[n].room, peers'[n].id)
            /\ \A s \in DOMAIN peers :
                  SameSession(peers', s, n) => peers'[s].closed
            /\ (\A m \in DOMAIN peers' : m > n => ~SameSession(peers', m, n))
                  => ~peers'[n].closed
         ]_vars

\* A connection superseded a session of a Room that another session keeps
\* open: the old session is closed, the new one is open.
C12_Witness ==
    \E s1, s2, other \in DOMAIN peers :
       /\ s1 < s2 /\ SameSession(peers, s1, s2)
       /\ peers[s1].closed /\ ~peers[s2].closed
       /\ peers[other].room = peers[s2].room /\ peers[other].id # peers[s2].id
       /\ ~peers[other].closed
       /\ ~roomObjs[peers[s2].room].closed

\* C16: in a step in which a queued connection request is rejected (its
\* Room.create threw), no Room is constructed, the room id has no registry
\* entry afterwards, the request holds no Room, and the sessions made in the
\* step are those of the requests accepted in it; a rejected request stays
\* as it is.
C16_CreateFailureRejects ==
    [][/\ \A c \in DOMAIN conns :
            /\ (conns[c].status = "queued" /\ conns'[c].status = "rejected")
               => /\ rooms'[conns[c].roomId] = 0
                  /\ Len(roomObjs') = Len(roomObjs)
                  /\ conns'[c].room = 0 /\ ~conns'[c].created
                  /\ \A i \in DOMAIN queue' : queue'[i] # c
            /\ conns[c].status = "rejected" => conns'[c] = conns[c]
       /\ Len(peers') - Len(peers) =
             Cardinality({c \in DOMAIN conns' :
                             /\ conns'[c].status = "accepted"
                             /\ (c \in DOMAIN conns => conns[c].status = "queued")})
      ]_vars

\* The construction of a Room failed: its request is rejected and the room
\* id is not registered, while a later request was admitted to another Room.
C16_Witness ==
    \E c1, c2 \in DOMAIN conns :
       /\ c1 < c2
       /\ conns[c1].status = "rejected" /\ conns[c1].code = 500
       /\ rooms[conns[c1].roomId] = 0
       /\ conns[c2].status = "accepted"

\* C17: a connection request without roomId or without peerId is rejected
\* with code 400 in the step in which it arrives and changes nothing else:
\* nothing is enqueued, the registry and the Rooms are untouched and no
\* session is made; it is never in the queue and never holds a Room.
C17_MissingIdRejected ==
    /\ [](\A c \in DOMAIN conns :
             (conns[c].roomId = NoId \/ conns[c].peerId = NoId)
             => /\ conns[c].status = "rejected" /\ conns[c].code = 400
                /\ conns[c].room = 0 /\ ~conns[c].created
                /\ \A i \in DOMAIN queue : queue[i] # c)
    /\ [][\A c \in DOMAIN conns' \ DOMAIN conns :
            (conns'[c].roomId = NoId \/ conns'[c].peerId = NoId)
            => /\ queue' = queue /\ creating' = creating
               /\ rooms' = rooms /\ roomObjs' = roomObjs /\ peers' = peers
         ]_vars

\* A request with a roomId and no peerId was rejected while a Room of that
\* id is open.
C17_Witness ==
    \E c \in DOMAIN conns :
       /\ conns[c].roomId # NoId /\ conns[c].peerId = NoId
       /\ conns[c].status = "rejected" /\ conns[c].code = 400
       /\ rooms[conns[c].roomId] # 0


\* ------------------------------------------------------ throttle
\* C15: a throttle request is suspended in throttle.start / throttle.stop
\* only when its secret is present and equal to the secret of the
\* environment; with any other secret, and with any secret when the
\* environment has none, it finishes in the step in which it is received,
\* rejected with code 403 and never accepted.
C15_ThrottleSecret ==
    /\ [](\A k \in DOMAIN requests :
             requests[k].pc = "throttle"
             => /\ requests[k].arg.secret \notin {NoSecret, ""}
                /\ requests[k].arg.secret = requests[k].arg.env)
    /\ [][(/\ last'.pc = "done" /\ last'.method \in ThrottleMethods
           /\ (last'.arg.secret \in {NoSecret, ""}
                  \/ last'.arg.secret # last'.arg.env))
          => /\ last'.accepts = 0 /\ last'.rejects = 1 /\ last'.code = 403
             /\ requests' = requests
         ]_vars

\* A request with a secret was rejected with 403 by a server that has no
\* secret configured.
C15_Witness ==
    /\ last.pc = "done" /\ last.method = "applyNetworkThrottle"
    /\ last.arg.secret = "s1" /\ last.arg.env = NoSecret
    /\ last.rejects = 1 /\ last.code = 403


\* The other joined sessions of the Room of session s, and the live
\* broadcasters of a Room, read off the variables.
OtherJoined(s) ==
    {j \in DOMAIN peers : /\ j # s /\ peers[j].room = peers[s].room
                          /\ ~peers[j].closed /\ peers[j].joined}
LiveBroadcasters(rm) ==
    {b \in DOMAIN broadcasters :
        broadcasters[b].room = rm /\ ~broadcasters[b].deleted}
SentTo(M, t, method, about) ==
    IF <<t, method, about>> \in BagToSet(M) THEN CopiesIn(<<t, method, about>>, M)
    ELSE 0

\* C13: a step in which a join request is accepted answers it with exactly
\* the other joined peers of the Room plus all the broadcasters the Room has
\* at that moment, and sends 'newPeer' about the joiner once to every other
\* joined peer and to nobody else (not to the joiner, not to a session that
\* has not joined).
C13_Original ==
    [][(last'.pc = "done" /\ last'.method = "join" /\ last'.accepts = 1) =>
          LET s == last'.peer
          IN /\ last'.result =
                   {<<peers[j].id, "device">> : j \in OtherJoined(s)}
                   \cup {<<broadcasters[b].id, "broadcaster">> :
                            b \in LiveBroadcasters(peers[s].room)}
             /\ \A t \in DOMAIN peers :
                   SentTo(sent', t, "newPeer", peers[s].id)
                      = IF t \in OtherJoined(s) THEN 1 ELSE 0
      ]_vars

\* A join was accepted in a Room that has a broadcaster under the joiner's
\* own id and another joined peer.
C13_Witness ==
    /\ last.pc = "done" /\ last.method = "join" /\ last.accepts = 1
    /\ OtherJoined(last.peer) # {}
    /\ \E b \in LiveBroadcasters(peers[last.peer].room) :
          broadcasters[b].id = peers[last.peer].id

\* C13, the part about peers only: the answer to an accepted join lists
\* exactly the other joined peers among its non-broadcaster entries, every
\* broadcaster it lists is a live broadcaster of the Room, and 'newPeer'
\* about the joiner goes once to every other joined peer and to nobody else.
C13_PeersPart ==
    [][(last'.pc = "done" /\ last'.method = "join" /\ last'.accepts = 1) =>
          LET s == last'.peer
          IN /\ {e \in last'.result : e[2] # "broadcaster"} =
                   {<<peers[j].id, "device">> : j \in OtherJoined(s)}
             /\ {e \in last'.result : e[2] = "broadcaster"} =
                   {<<broadcasters[b].id, "broadcaster">> :
                      b \in {x \in LiveBroadcasters(peers[s].room) :
                                broadcasters[x].id # peers[s].id}}
             /\ \A t \in DOMAIN peers :
                   SentTo(sent', t, "newPeer", peers[s].id)
                      = IF t \in OtherJoined(s) THEN 1 ELSE 0
      ]_vars

\* C14: a step in which a changeDisplayName request of a joined session is
\* accepted stores the requested name in the session and sends
\* 'peerDisplayNameChanged' carrying the requester's id, the new name and
\* the name the session had before, once to every other joined peer of the
\* Room and to nobody else (not the requester, not a session that has not
\* joined); no other 'peerDisplayNameChanged' is sent in the step.
C14_DisplayNameChanged ==
    [][(last'.pc = "done" /\ last'.method = "changeDisplayName"
           /\ last'.accepts = 1) =>
          LET s == last'.peer
              about == <<peers[s].id, last'.arg.displayName, peers[s].displayName>>
          IN /\ peers[s].joined
             /\ peers'[s].displayName = last'.arg.displayName
             /\ \A t \in DOMAIN peers :
                   SentTo(sent', t, "peerDisplayNameChanged", about)
                      = IF t \in OtherJoined(s) THEN 1 ELSE 0
             /\ \A m \in BagToSet(sent') :
                   m[2] = "peerDisplayNameChanged" => m[3] = about
      ]_vars

\* A joined session changed its name from "n1" to "n2" while the Room has
\* another joined session, which was told, and an open session that has not
\* joined.
C14_Witness ==
    /\ last.pc = "done" /\ last.method = "changeDisplayName" /\ last.accepts = 1
    /\ \E t, u \in DOMAIN peers :
          /\ t \in OtherJoined(last.peer)
          /\ u # last.peer /\ peers[u].room = peers[last.peer].room
          /\ ~peers[u].closed /\ ~peers[u].joined
          /\ SentTo(sent, t, "peerDisplayNameChanged",
                    <<peers[last.peer].id, "n2", "n1">>) = 1

\* The broadcasters without receive capabilities, deleted ones included.
WithoutCaps == {b \in DOMAIN broadcasters : broadcasters[b].rtpCapabilities = NoCaps}
ConsumerCalls == {"createBroadcasterConsumer", "createBroadcasterDataConsumer"}

\* C20: a broadcaster created without rtpCapabilities never has a consumer
\* or a data consumer and no call is ever suspended in transport.consume or
\* transport.consumeData on its behalf; no step changes its consumers or
\* dataConsumers collection; and a createBroadcasterConsumer or
\* createBroadcasterDataConsumer call that names it when it is the Room's
\* broadcaster of that id and ends in the step it is made (no suspended call
\* is resumed in the step) is rejected with 'broadcaster does not have
\* rtpCapabilities' and never resolved.  With the invariant, no such call
\* ends in any other way.
C20_NoCapsNoConsumer ==
    /\ [](/\ \A b \in WithoutCaps :
                broadcasters[b].consumers = <<>> /\ broadcasters[b].dataConsumers = <<>>
          /\ \A k \in DOMAIN requests :
                requests[k].pc \in {"broadcasterConsume", "broadcasterConsumeData"}
                   => requests[k].arg.broadcaster \notin WithoutCaps)
    /\ [][/\ \A b \in WithoutCaps :
                /\ broadcasters'[b].consumers = broadcasters[b].consumers
                /\ broadcasters'[b].dataConsumers = broadcasters[b].dataConsumers
          /\ (last'.pc = "done" /\ last'.method \in ConsumerCalls
                /\ requests' = requests
                /\ \E b \in WithoutCaps \cap LiveBroadcasters(last'.arg.room) :
                      broadcasters[b].id = last'.arg.peerId)
               => /\ last'.accepts = 0 /\ last'.rejects = 1
                  /\ last'.reason = "broadcaster does not have rtpCapabilities"
         ]_vars

\* A broadcaster without rtpCapabilities that holds a transport asked for a
\* consumer of a live producer of a joined peer and was refused.
C20_Witness ==
    /\ last.pc = "done" /\ last.method = "createBroadcasterConsumer"
    /\ last.reason = "broadcaster does not have rtpCapabilities"
    /\ \E b \in WithoutCaps \cap LiveBroadcasters(last.arg.room) :
          /\ broadcasters[b].id = last.arg.peerId
          /\ broadcasters[b].transports # {}
    /\ \E p \in DOMAIN producers : ~producers[p].closed /\ producers[p].peer # 0

\* C19: every producer and data producer of a session is on a transport
\* that was created for the producing direction, every consumer and data
\* consumer of a session is on a transport that was created for the
\* consuming direction, and a produce request is suspended in the engine
\* only for a session that holds a transport created for producing.
C19_Original ==
    [](/\ \A p \in DOMAIN producers :
            producers[p].peer # 0 => transports[producers[p].transport].producing
       /\ \A d \in DOMAIN dataProducers :
            transports[dataProducers[d].transport].producing
       /\ \A c \in DOMAIN consumers : transports[consumers[c].transport].consuming
       /\ \A d \in DOMAIN dataConsumers :
            transports[dataConsumers[d].transport].consuming
       /\ \A k \in DOMAIN requests :
            requests[k].pc = "produce" =>
               \E t \in peers[requests[k].peer].transports : transports[t].producing)

\* A session whose only transport was created for consuming holds a
\* producer on it.
C19_Witness ==
    \E s \in DOMAIN peers, p \in DOMAIN producers :
       /\ p \in peers[s].producers
       /\ ~transports[producers[p].transport].producing
       /\ transports[producers[p].transport].consuming
       /\ \A t \in peers[s].transports : ~transports[t].producing

\* C19, the consuming half: every consumer and data consumer of a session
\* is on a transport that was created for the consuming direction.
C19_ConsumerPart ==
    [](/\ \A c \in DOMAIN consumers : transports[consumers[c].transport].consuming
       /\ \A d \in DOMAIN dataConsumers :
            transports[dataConsumers[d].transport].consuming)

\* The methods that name an object of the session by id, the collection
\* each looks the id up in, and whether it checks `joined` first.
IdMethods == DOMAIN Lookup \cup {"closeProducer", "produce", "produceData"}
CollectionOf(method) ==
    IF method \in DOMAIN Lookup THEN Lookup[method].in
    ELSE IF method = "closeProducer" THEN "producers" ELSE "transports"
ChecksJoined(method) == method \in DOMAIN Lookup => Lookup[method].joined
NotFoundReasons == {"not found", "transport not found"}

\* Request r was received in this step and names an id that is not in the
\* collection of its session.
Misses(r) ==
    /\ r.pc = "done" /\ r.method \in IdMethods
    /\ requests' = requests
    /\ r.arg.id \notin peers[r.peer][CollectionOf(r.method)]

\* The step changed nothing but the answer to the request.
NothingChanged ==
    /\ UNCHANGED <<rooms, roomObjs, queue, creating, conns, peers, broadcasters,
                   transports, producers, consumers, dataProducers,
                   dataConsumers, requests>>
    /\ sent' = EmptyBag

\* Session s owns object id of the collection a method looks in.
Owns(s, method, id) ==
    IF CollectionOf(method) = "transports" THEN id \in peers[s].transports
    ELSE LET objs == CASE CollectionOf(method) = "producers" -> producers
                       [] CollectionOf(method) = "consumers" -> consumers
                       [] CollectionOf(method) = "dataProducers" -> dataProducers
                       [] OTHER -> dataConsumers
         IN id \in DOMAIN objs /\ objs[id].peer = s

\* No call is suspended on, and no request accepted for, an object of
\* another session; a step that answers such a request closes no producer
\* and pauses or resumes no consumer of another session.
Isolated ==
    /\ [](\A k \in DOMAIN requests :
             requests[k].pc \in {"call", "produce", "produceData"}
                => Owns(requests[k].peer, requests[k].method, requests[k].arg.id))
    /\ [][(last'.pc = "done" /\ last'.method \in IdMethods) =>
            /\ last'.accepts = 1 => Owns(last'.peer, last'.method, last'.arg.id)
            /\ \A p \in DOMAIN producers :
                  producers'[p].closed # producers[p].closed
                     => producers[p].peer = last'.peer
            /\ \A c \in DOMAIN consumers :
                  consumers'[c].paused # consumers[c].paused
                     => consumers[c].peer = last'.peer
         ]_vars

\* C11 as stated: a request that names an id which is not in the
\* requesting session's own collection is rejected with a not-found error
\* and changes no state; no session pauses, resumes, closes or reads an
\* object of another session.
C11_Original ==
    /\ [][Misses(last') =>
            /\ last'.accepts = 0 /\ last'.rejects = 1
            /\ last'.reason \in NotFoundReasons
            /\ NothingChanged
         ]_vars
    /\ Isolated

\* C11, amended: such a request is rejected and changes no state; the error
\* is the not-found error when the method does not check `joined` or the
\* session has joined, and 'Peer not yet joined' otherwise; no session
\* pauses, resumes, closes or reads an object of another session.
C11_NotFoundOrNotJoined ==
    /\ [][Misses(last') =>
            /\ last'.accepts = 0 /\ last'.rejects = 1
            /\ IF ChecksJoined(last'.method) /\ ~peers[last'.peer].joined
               THEN last'.reason = "Peer not yet joined"
               ELSE last'.reason \in NotFoundReasons
            /\ NothingChanged
         ]_vars
    /\ Isolated

\* A joined session asked to pause a producer that is in the collection of
\* another session of its Room and got the not-found error.
C11_Witness ==
    /\ last.pc = "done" /\ last.method = "pauseProducer"
    /\ last.reason \in NotFoundReasons
    /\ peers[last.peer].joined
    /\ \E u \in DOMAIN peers :
          /\ u # last.peer /\ peers[u].room = peers[last.peer].room
          /\ last.arg.id \in peers[u].producers

\* C18: in every state, every producer and data producer in a session's
\* collections is on a transport of that session's transports collection,
\* and so is every consumer and data consumer in a session's collections.
C18_OwnTransport ==
    \A s \in DOMAIN peers :
       /\ \A p \in peers[s].producers :
             producers[p].transport \in peers[s].transports
       /\ \A d \in peers[s].dataProducers :
             dataProducers[d].transport \in peers[s].transports
       /\ \A c \in peers[s].consumers :
             consumers[c].transport \in peers[s].transports
       /\ \A d \in peers[s].dataConsumers :
             dataConsumers[d].transport \in peers[s].transports

\* Two sessions with a transport each: one holds a producer and a data
\* producer, the other a consumer and a data consumer of them.
C18_Witness ==
    \E s, u \in DOMAIN peers :
       /\ s # u /\ peers[s].transports # {} /\ peers[u].transports # {}
       /\ peers[s].producers # {} /\ peers[s].dataProducers # {}
       /\ \E c \in peers[u].consumers : consumers[c].producer \in peers[s].producers
       /\ \E d \in peers[u].dataConsumers :
             dataConsumers[d].dataProducer \in peers[s].dataProducers

\* The methods _handleProtooRequest has a case for.
Catalogue ==
    DOMAIN Lookup \cup ThrottleMethods \cup
    {"getRouterRtpCapabilities", "join", "createWebRtcTransport", "produce",
     "closeProducer", "produceData", "changeDisplayName", "mixerDataChanged"}

\* C21: a request whose method is not in the catalogue ends in the step it
\* is received: it is rejected once with code 500 and the unknown-method
\* message, never accepted, and the step changes no session or Room state
\* and sends nothing.
C21_UnknownMethod ==
    [][(last'.pc = "done" /\ last'.peer # 0 /\ last'.method \notin Catalogue) =>
          /\ last'.accepts = 0 /\ last'.rejects = 1 /\ last'.code = 500
          /\ last'.reason = "unknown request.method"
          /\ NothingChanged
      ]_vars

\* A joined session that holds a transport and a producer sent a request
\* with an unknown method and was refused.
C21_Witness ==
    /\ last.pc = "done" /\ last.peer # 0 /\ last.method \notin Catalogue
    /\ last.rejects = 1
    /\ peers[last.peer].joined
    /\ peers[last.peer].transports # {} /\ peers[last.peer].producers # {}

\* The attempt for consumer c failed: transport.consume threw, or the
\* newConsumer request failed or was rejected.
RequestFailed(c) == consumers[c].state = "failed" /\ ~consumers[c].acked
AttemptFailed(c) == consumers[c].state = "nope" \/ RequestFailed(c)

\* C22: a consumer whose creation threw or whose newConsumer request failed
\* or was rejected is not in the receiver's consumers collection, is still
\* paused (never resumed), and is the only attempt for its producer and
\* receiver.
C22_Original ==
    \A c \in DOMAIN consumers :
       AttemptFailed(c) =>
          /\ c \notin peers[consumers[c].peer].consumers
          /\ consumers[c].paused
          /\ \A c2 \in DOMAIN consumers :
                (consumers[c2].producer = consumers[c].producer
                   /\ consumers[c2].peer = consumers[c].peer) => c2 = c

\* The receiver rejected the newConsumer request; the receiver, its
\* transport and the producer are open and the consumer is still in the
\* receiver's collection.
C22_Witness ==
    \E c \in DOMAIN consumers :
       /\ RequestFailed(c) /\ consumers[c].requests = 1
       /\ StillOpen(c) /\ ~consumers[c].closed
       /\ c \in peers[consumers[c].peer].consumers

\* C22, what holds: such a consumer is never resumed and no second attempt
\* is made for its producer and receiver; it is not in the receiver's
\* collection when transport.consume threw.
C22_NeverResumed ==
    \A c \in DOMAIN consumers :
       AttemptFailed(c) =>
          /\ consumers[c].state = "nope" => c \notin peers[consumers[c].peer].consumers
          /\ consumers[c].paused
          /\ \A c2 \in DOMAIN consumers :
                (consumers[c2].producer = consumers[c].producer
                   /\ consumers[c2].peer = consumers[c].peer) => c2 = c

\* ------------------------------------------------------------------- C23
\* Session s holds a transport created for consuming.
HasConsuming(s) == \E t \in peers[s].transports : transports[t].consuming

\* The producers of the other joined peers and of the broadcasters of the
\* room of session s.
MediaOffered(s) ==
    UNION {peers[j].producers : j \in OtherJoined(s)}
    \cup UNION {broadcasters[b].producers : b \in LiveBroadcasters(peers[s].room)}

DataOffered(s) ==
    UNION {peers[j].dataProducers : j \in OtherJoined(s)}
    \cup UNION {broadcasters[b].dataProducers :
                    b \in LiveBroadcasters(peers[s].room)}

\* C23: a step in which a join is accepted starts, for the joiner and for
\* nobody else, one consumer for every producer of every other joined peer
\* and of every broadcaster of the Room, one data consumer for every data
\* producer of theirs that is not labelled 'bot' and none for one that is,
\* and exactly one data consumer for the data producer of the bot. (A
\* consumer is started when the joiner can receive the producer and holds a
\* consuming transport, a data consumer when it declared sctpCapabilities
\* and holds a consuming transport.)
C23_JoinFanOut ==
    [][(last'.method = "join" /\ last'.accepts = 1) =>
        LET s == last'.peer
            cs == DOMAIN consumers' \ DOMAIN consumers
            ds == DOMAIN dataConsumers' \ DOMAIN dataConsumers
        IN /\ \A c \in cs : consumers'[c].peer = s /\ consumers'[c].by = "join"
           /\ \A d \in ds : dataConsumers'[d].peer = s
           /\ \A p \in DOMAIN producers :
                 Cardinality({c \in cs : consumers'[c].producer = p}) =
                    IF /\ p \in MediaOffered(s)
                       /\ HasConsuming(s)
                       /\ Decodable(peers'[s].rtpCapabilities, producers[p].kind)
                    THEN 1 ELSE 0
           /\ \A d \in DOMAIN dataProducers \cup {BotDataProducer} :
                 Cardinality({x \in ds : dataConsumers'[x].dataProducer = d}) =
                    IF /\ \/ d = BotDataProducer
                          \/ d \in DataOffered(s) /\ dataProducers[d].label # "bot"
                       /\ HasConsuming(s)
                       /\ peers'[s].sctpCapabilities
                    THEN 1 ELSE 0
      ]_vars

\* A session has just joined a Room in which a broadcaster produces and a
\* peer has a 'chat' data producer: it got a consumer for the producer of
\* the broadcaster, a data consumer for the 'chat' data producer and one for
\* the data producer of the bot.
C23_Witness ==
    /\ last.method = "join" /\ last.accepts = 1
    /\ \E c \in DOMAIN consumers, b \in DOMAIN broadcasters :
          /\ consumers[c].peer = last.peer /\ consumers[c].by = "join"
          /\ consumers[c].producer \in broadcasters[b].producers
    /\ \E d \in DOMAIN dataConsumers :
          /\ dataConsumers[d].peer = last.peer
          /\ dataConsumers[d].dataProducer # BotDataProducer
          /\ dataProducers[dataConsumers[d].dataProducer].label = "chat"
    /\ Cardinality({d \in DOMAIN dataConsumers :
                      /\ dataConsumers[d].peer = last.peer
                      /\ dataConsumers[d].dataProducer = BotDataProducer}) = 1

\* A session joined a Room in which a peer has a data producer labelled
\* 'bot': it got no data consumer for it.
C23_BotLabelSkipped ==
    /\ last.method = "join" /\ last.accepts = 1
    /\ \E j \in OtherJoined(last.peer) : \E d \in peers[j].dataProducers :
          dataProducers[d].label = "bot"
    /\ HasConsuming(last.peer) /\ peers[last.peer].sctpCapabilities

\* ------------------------------------------------------------------- C24
\* The step is the failure of a fan-out attempt for a peer that stays
\* connected: transport.consume or consumeData threw, or the newConsumer /
\* newDataConsumer request failed.
ConsumerFails(c) ==
    /\ consumers[c].state \notin {"nope", "failed"}
    /\ consumers'[c].state \in {"nope", "failed"}
    /\ ~peers'[consumers[c].peer].closed
DataConsumerFails(d) ==
    /\ dataConsumers[d].state \notin {"nope", "failed"}
    /\ dataConsumers'[d].state \in {"nope", "failed"}
    /\ ~peers'[dataConsumers[d].peer].closed

\* The other attempts, the producers, the data producers and the sessions'
\* collections of them stay as they are, and nothing is answered or
\* notified.
OthersUntouched(cs, ds) ==
    /\ producers' = producers
    /\ dataProducers' = dataProducers
    /\ DOMAIN peers' = DOMAIN peers
    /\ \A s \in DOMAIN peers :
          /\ peers'[s].producers = peers[s].producers
          /\ peers'[s].dataProducers = peers[s].dataProducers
          /\ peers'[s].joined = peers[s].joined
    /\ DOMAIN consumers' = DOMAIN consumers
    /\ DOMAIN dataConsumers' = DOMAIN dataConsumers
    /\ \A c \in DOMAIN consumers \ cs : consumers'[c] = consumers[c]
    /\ \A d \in DOMAIN dataConsumers \ ds : dataConsumers'[d] = dataConsumers[d]
    /\ requests' = requests
    /\ last' = NoRequest
    /\ sent' = EmptyBag

\* C24: the failure of a consumer or data consumer attempt of a fan-out
\* changes nothing but that attempt: no request is answered by it, every
\* producer and data producer stays in its session's collection, every
\* session stays joined and the attempts for the other peers go on. And the
\* step that stores a producer accepts the produce request, keeps the
\* producer in the requester's collection and starts a consumer for every
\* other joined peer that holds a consuming transport, whatever became of
\* earlier attempts.
C24_FanOutFailureIsolated ==
    [][/\ \A c \in DOMAIN consumers : ConsumerFails(c) => OthersUntouched({c}, {})
       /\ \A d \in DOMAIN dataConsumers :
             DataConsumerFails(d) => OthersUntouched({}, {d})
       /\ \A p \in DOMAIN producers' \ DOMAIN producers :
             /\ last'.method = "produce"
             /\ last'.accepts = 1 /\ last'.rejects = 0
             /\ p \in peers'[last'.peer].producers
             /\ \A j \in OtherJoined(last'.peer) :
                   (HasConsuming(j) /\ Decodable(peers[j].rtpCapabilities,
                                                producers'[p].kind))
                   => \E c \in DOMAIN consumers' \ DOMAIN consumers :
                         consumers'[c].peer = j /\ consumers'[c].producer = p
      ]_vars

\* The attempt for one peer has just failed while the attempt for another
\* peer, for the same producer, is under way or done; the producer is open
\* and in its session's collection.
C24_Witness ==
    \E c1, c2 \in DOMAIN consumers :
        /\ consumers[c1].producer = consumers[c2].producer
        /\ consumers[c1].peer # consumers[c2].peer
        /\ consumers[c1].state \in {"nope", "failed"}
        /\ consumers[c2].state \in {"request", "resume", "resumed"}
        /\ ~producers[consumers[c1].producer].closed
        /\ consumers[c1].producer \in
              peers[producers[consumers[c1].producer].peer].producers

\* ------------------------------------------------------------------- C25
\* The data producer of a data consumer has closed (the data producer of the
\* bot closes with the Room only).
DataProducerClosed(d) ==
    /\ dataConsumers[d].dataProducer # BotDataProducer
    /\ dataProducers[dataConsumers[d].dataProducer].closed

\* C25, as stated: no session's collection keeps a consumer whose producer
\* or transport is closed, nor a data consumer whose data producer or
\* transport is closed.
C25_Original ==
    \A s \in DOMAIN peers :
        /\ \A c \in peers[s].consumers :
              /\ ~producers[consumers[c].producer].closed
              /\ ~transports[consumers[c].transport].closed
        /\ \A d \in peers[s].dataConsumers :
              /\ ~DataProducerClosed(d)
              /\ ~transports[dataConsumers[d].transport].closed

\* C25, amended: a consumer closes in the step in which its own transport
\* closes, and then it leaves its owner's collection without a
\* consumerClosed; or in the step in which the 'producerclose' event of its
\* already closed producer is delivered, and then it leaves the collection
\* and its owner is sent consumerClosed once. consumerClosed is sent in no
\* other step and to nobody else. The same holds for data consumers with
\* dataConsumerClosed. No collection keeps a closed consumer or one whose
\* transport is closed; one whose producer is closed is kept only until
\* that event.
C25_CloseEvents ==
    [][/\ \A c \in DOMAIN consumers :
             (~consumers[c].closed /\ consumers'[c].closed) =>
                /\ c \notin peers'[consumers[c].peer].consumers
                /\ SentTo(sent', consumers[c].peer, "consumerClosed", c) =
                      IF transports'[consumers[c].transport].closed THEN 0 ELSE 1
                /\ ~transports'[consumers[c].transport].closed
                      => producers[consumers[c].producer].closed
       /\ \A d \in DOMAIN dataConsumers :
             (~dataConsumers[d].closed /\ dataConsumers'[d].closed) =>
                /\ d \notin peers'[dataConsumers[d].peer].dataConsumers
                /\ SentTo(sent', dataConsumers[d].peer, "dataConsumerClosed", d) =
                      IF transports'[dataConsumers[d].transport].closed
                      THEN 0 ELSE 1
                /\ ~transports'[dataConsumers[d].transport].closed
                      => DataProducerClosed(d)
       /\ \A n \in BagToSet(sent') :
             /\ n[2] = "consumerClosed" =>
                   /\ ~consumers[n[3]].closed /\ consumers'[n[3]].closed
                   /\ n[1] = consumers[n[3]].peer
             /\ n[2] = "dataConsumerClosed" =>
                   /\ ~dataConsumers[n[3]].closed /\ dataConsumers'[n[3]].closed
                   /\ n[1] = dataConsumers[n[3]].peer
       /\ \A c \in DOMAIN consumers : consumers[c].closed => consumers'[c].closed
       /\ \A d \in DOMAIN dataConsumers :
             dataConsumers[d].closed => dataConsumers'[d].closed
       /\ \A s \in DOMAIN peers' :
             /\ \A c \in peers'[s].consumers :
                   /\ ~consumers'[c].closed
                   /\ ~transports'[consumers'[c].transport].closed
             /\ \A d \in peers'[s].dataConsumers :
                   /\ ~dataConsumers'[d].closed
                   /\ ~transports'[dataConsumers'[d].transport].closed
      ]_vars

\* The producer and the data producer of a session closed, and the
\* 'producerclose' event of a consumer of another session has just been
\* delivered: the consumer left the collection and consumerClosed was sent
\* once, while the data consumer of the closed data producer is still in
\* its owner's collection.
C25_Witness ==
    \E c \in DOMAIN consumers, d \in DOMAIN dataConsumers :
        /\ consumers[c].closed
        /\ ~transports[consumers[c].transport].closed
        /\ c \notin peers[consumers[c].peer].consumers
        /\ SentTo(sent, consumers[c].peer, "consumerClosed", c) = 1
        /\ DataProducerClosed(d)
        /\ d \in peers[dataConsumers[d].peer].dataConsumers

\* ------------------------------------------------------------------- C26
\* The step changes no object of the room and notifies nobody.
NoMediaChange ==
    /\ peers' = peers
    /\ transports' = transports
    /\ producers' = producers
    /\ dataProducers' = dataProducers
    /\ consumers' = consumers
    /\ dataConsumers' = dataConsumers
    /\ sent' = EmptyBag

\* C26: the step in which transport.produce (or produceData) returns to a
\* suspended request either stores one producer (data producer) and accepts
\* the request, or - the call threw - rejects the request once with code
\* 500 and changes nothing: no producer or data producer is stored or added
\* to the audioLevelObserver, no consumer or data consumer is started and
\* nobody is notified.
C26_ProduceThrowRejects ==
    [][\A k \in 1..MaxInflight :
          (requests[k].pc \in {"produce", "produceData"} /\ requests'[k] # requests[k])
          => /\ last'.pc = "done"
             /\ last'.method = requests[k].method
             /\ last'.peer = requests[k].peer
             /\ \/ /\ last'.accepts = 1 /\ last'.rejects = 0
                   /\ Len(producers') + Len(dataProducers')
                         = Len(producers) + Len(dataProducers) + 1
                \/ /\ last'.accepts = 0 /\ last'.rejects = 1
                   /\ last'.code = 500
                   /\ NoMediaChange
      ]_vars

\* A produce request has just been rejected because the engine threw, in a
\* Room with another joined peer that holds a consuming transport: there is
\* no producer and no consumer.
C26_Witness ==
    /\ last.method = "produce" /\ last.rejects = 1 /\ last.reason = "engine"
    /\ \E j \in OtherJoined(last.peer) : HasConsuming(j)
    /\ producers = <<>>
    /\ consumers = <<>>

\* ------------------------------------------------------------------- C29
\* The peerId values of the activeSpeaker notifications of a bag.
Speakers(M) == {n[3] : n \in {x \in BagToSet(M) : x[2] = "activeSpeaker"}}

\* The audio producers the observer of the room holds, and the id of the
\* peer or broadcaster that owns producer p.
Observed == {p \in DOMAIN producers : producers[p].observed /\ ~producers[p].closed}
OwnerId(p) ==
    IF producers[p].peer # 0 THEN peers[producers[p].peer].id
    ELSE broadcasters[producers[p].broadcaster].id

\* Every joined session gets one activeSpeaker with peerId `about`, a
\* session that has not joined gets none.
ToldSpeaker(M, about) ==
    \A s \in DOMAIN peers :
        SentTo(M, s, "activeSpeaker", about) =
            IF peers[s].joined /\ ~peers[s].closed THEN 1 ELSE 0

\* C29, as stated: a step that sends activeSpeaker sends it once to every
\* joined peer and to no other session, all with the same peerId, which is
\* null (silence) or the id of the peer or broadcaster that owns an audio
\* producer of the observer.
C29_Original ==
    [][\A about \in Speakers(sent') :
          /\ Speakers(sent') = {about}
          /\ ToldSpeaker(sent', about)
          /\ about = "null" \/ \E p \in Observed : about = OwnerId(p)
      ]_vars

\* The joined peers have just been sent activeSpeaker for the audio producer
\* of a broadcaster, with peerId undefined, while a session that has not
\* joined was sent nothing.
C29_Witness ==
    /\ \E p \in Observed : producers[p].peer = 0
    /\ \E s \in DOMAIN peers : SentTo(sent, s, "activeSpeaker", "undefined") = 1
    /\ \E s \in DOMAIN peers : ~peers[s].closed /\ ~peers[s].joined
    /\ ToldSpeaker(sent, "undefined")

\* What holds of C29: the recipients are exactly the joined peers, and the
\* peerId is null, or the id of the session that owns an audio producer of
\* the observer, or undefined when a broadcaster owns it.
C29_PeersPart ==
    [][\A about \in Speakers(sent') :
          /\ Speakers(sent') = {about}
          /\ ToldSpeaker(sent', about)
          /\ \/ about = "null"
             \/ \E p \in Observed :
                   about = IF producers[p].peer # 0 THEN OwnerId(p)
                           ELSE "undefined"
      ]_vars

\* A peer's audio producer was reported: the joined peers, the producing
\* one among them, were sent activeSpeaker with its id.
C29_PeerSpeaker ==
    \E p \in Observed :
        /\ producers[p].peer # 0
        /\ ToldSpeaker(sent, OwnerId(p))
        /\ SentTo(sent, producers[p].peer, "activeSpeaker", OwnerId(p)) = 1

\* ------------------------------------------------------------------- C27
\* The methods a session that has not joined may have accepted (join is the
\* request that ends this state), and the methods that need a joined
\* session.
PreJoinMethods ==
    {"getRouterRtpCapabilities", "join", "createWebRtcTransport",
     "connectWebRtcTransport", "restartIce", "getTransportStats",
     "getProducerStats", "getConsumerStats", "getDataProducerStats",
     "getDataConsumerStats"} \cup ThrottleMethods
JoinedMethods ==
    {"produce", "produceData", "closeProducer", "pauseProducer",
     "resumeProducer", "pauseConsumer", "resumeConsumer",
     "setConsumerPreferredLayers", "setConsumerPriority",
     "requestConsumerKeyFrame", "changeDisplayName", "mixerDataChanged"}

\* C27: when the request of a session that has not joined is answered, it is
\* accepted only if its method is getRouterRtpCapabilities, join,
\* createWebRtcTransport, connectWebRtcTransport, restartIce, a stats query
\* or a throttle method; produce, produceData, closeProducer, pauseProducer,
\* resumeProducer, the consumer control methods, changeDisplayName and
\* mixerDataChanged are rejected once with 'Peer not yet joined' in the step
\* in which they arrive, which changes nothing and notifies nobody.
C27_PreJoinMethods ==
    [][(last'.pc = "done" /\ last'.peer # 0 /\ ~peers[last'.peer].joined) =>
          /\ last'.accepts > 0 => last'.method \in PreJoinMethods
          /\ last'.method \in JoinedMethods =>
                /\ last'.accepts = 0 /\ last'.rejects = 1
                /\ last'.code = 500
                /\ last'.reason = "Peer not yet joined"
                /\ NothingChanged
      ]_vars

\* A session that holds a transport and has not joined has just had its
\* produceData request rejected.
C27_Witness ==
    /\ last.method = "produceData"
    /\ last.reason = "Peer not yet joined"
    /\ ~peers[last.peer].joined
    /\ peers[last.peer].transports # {}

\* ------------------------------------------------------------------- C28
\* C28: the step that stores a data producer accepts the produceData request
\* once and puts the data producer into the requester's collection; the
\* data consumers it starts are, for label 'chat', one for every other
\* joined peer (that declared sctpCapabilities and holds a consuming
\* transport) and none for the requester or a session that has not joined;
\* for label 'bot' none at all, and then the bot is given the data
\* producer, as it is for no other label. A data consumer goes from its
\* newDataConsumer request straight to its end: nothing is resumed.
C28_ProduceDataRouting ==
    [][/\ \A dp \in DOMAIN dataProducers' \ DOMAIN dataProducers :
             LET ds == DOMAIN dataConsumers' \ DOMAIN dataConsumers
                 s == last'.peer
             IN /\ last'.pc = "done" /\ last'.method = "produceData"
                /\ last'.accepts = 1 /\ last'.rejects = 0
                /\ dp \in peers'[s].dataProducers
                /\ dataProducers'[dp].peer = s
                /\ dataProducers'[dp].bot = (dataProducers'[dp].label = "bot")
                /\ \A d \in ds : dataConsumers'[d].dataProducer = dp
                /\ \A j \in DOMAIN peers :
                      Cardinality({d \in ds : dataConsumers'[d].peer = j}) =
                         IF /\ dataProducers'[dp].label = "chat"
                            /\ j \in OtherJoined(s)
                            /\ HasConsuming(j)
                            /\ peers[j].sctpCapabilities
                         THEN 1 ELSE 0
                /\ broadcasters' = broadcasters
       /\ \A d \in DOMAIN dataConsumers :
             (dataConsumers[d].state = "request"
                /\ dataConsumers'[d].state # "request")
             => dataConsumers'[d].state \in {"done", "failed"}
      ]_vars

\* A 'chat' produceData has just been accepted in a Room of three joined
\* peers: each of the two others got a data consumer, the requester none.
C28_Witness ==
    /\ last.method = "produceData" /\ last.accepts = 1
    /\ \E dp \in peers[last.peer].dataProducers :
          /\ dataProducers[dp].label = "chat"
          /\ Cardinality({dataConsumers[d].peer :
                             d \in {x \in DOMAIN dataConsumers :
                                       /\ dataConsumers[x].dataProducer = dp
                                       /\ dataConsumers[x].state = "consume"}}) = 2
          /\ \A d \in DOMAIN dataConsumers :
                dataConsumers[d].dataProducer = dp
                   => dataConsumers[d].peer # last.peer

\* A 'bot' produceData has just been accepted while two other joined peers
\* could consume data: the bot was given the data producer and no peer got
\* a data consumer for it.
C28_BotRouted ==
    /\ last.method = "produceData" /\ last.accepts = 1
    /\ \E dp \in peers[last.peer].dataProducers :
          /\ dataProducers[dp].label = "bot" /\ dataProducers[dp].bot
          /\ \A d \in DOMAIN dataConsumers : dataConsumers[d].dataProducer # dp
    /\ Cardinality({j \in OtherJoined(last.peer) :
                      HasConsuming(j) /\ peers[j].sctpCapabilities}) = 2

\* ------------------------------------------------------------------- C30
\* The step answers a createBroadcaster call for Room rm with id `id`.
CreatedBroadcaster(rm, id) ==
    /\ last'.pc = "done" /\ last'.method = "createBroadcaster"
    /\ last'.arg.room = rm /\ last'.arg.peerId = id

HasBroadcaster(rm, id) ==
    \E b \in LiveBroadcasters(rm) : broadcasters[b].id = id

\* createBroadcaster succeeds exactly when the Room has no broadcaster of
\* that id, whatever the sessions have joined; then the broadcaster is in
\* the set and newPeer with its id goes once to every joined peer and to no
\* other session. Otherwise it fails, the set is unchanged and nothing is
\* sent. No two broadcasters of a Room share an id.
BroadcasterRegistered ==
    /\ \A rm \in DOMAIN roomObjs, id \in {"a", "d"} :
          CreatedBroadcaster(rm, id) =>
             IF HasBroadcaster(rm, id)
             THEN /\ last'.accepts = 0 /\ last'.rejects = 1
                  /\ broadcasters' = broadcasters
                  /\ sent' = EmptyBag
             ELSE /\ last'.accepts = 1 /\ last'.rejects = 0
                  /\ Len(broadcasters') = Len(broadcasters) + 1
                  /\ broadcasters'[Len(broadcasters')].id = id
                  /\ broadcasters'[Len(broadcasters')].room = rm
                  /\ ~broadcasters'[Len(broadcasters')].deleted
                  /\ \A b \in DOMAIN broadcasters :
                        broadcasters'[b] = broadcasters[b]
                  /\ \A t \in DOMAIN peers :
                        SentTo(sent', t, "newPeer", id) =
                           IF /\ peers[t].room = rm /\ ~peers[t].closed
                              /\ peers[t].joined
                           THEN 1 ELSE 0
    /\ \A b1, b2 \in DOMAIN broadcasters' :
          (/\ b1 # b2
           /\ ~broadcasters'[b1].deleted /\ ~broadcasters'[b2].deleted
           /\ broadcasters'[b1].room = broadcasters'[b2].room)
          => broadcasters'[b1].id # broadcasters'[b2].id

\* C30, as stated: BroadcasterRegistered, and the answer to every accepted
\* join lists every broadcaster the Room has.
C30_Original ==
    [][/\ BroadcasterRegistered
       /\ (last'.pc = "done" /\ last'.method = "join" /\ last'.accepts = 1) =>
             \A b \in LiveBroadcasters(peers[last'.peer].room) :
                <<broadcasters[b].id, "broadcaster">> \in last'.result
      ]_vars

\* A join has just been accepted and its answer does not list a broadcaster
\* of the Room.
C30_Witness ==
    /\ last.pc = "done" /\ last.method = "join" /\ last.accepts = 1
    /\ \E b \in LiveBroadcasters(peers[last.peer].room) :
          <<broadcasters[b].id, "broadcaster">> \notin last.result

\* What holds of C30: BroadcasterRegistered, and the answer to an accepted
\* join lists every broadcaster of the Room whose id is not the joiner's.
C30_BroadcasterPart ==
    [][/\ BroadcasterRegistered
       /\ (last'.pc = "done" /\ last'.method = "join" /\ last'.accepts = 1) =>
             \A b \in LiveBroadcasters(peers[last'.peer].room) :
                broadcasters[b].id # peers[last'.peer].id
                   => <<broadcasters[b].id, "broadcaster">> \in last'.result
      ]_vars

\* A createBroadcaster with the id of a broadcaster of the Room has just
\* failed.
C30_Duplicate ==
    /\ last.method = "createBroadcaster" /\ last.rejects = 1
    /\ HasBroadcaster(last.arg.room, last.arg.peerId)

\* A broadcaster has just been created in a Room with a joined peer and a
\* session that has not joined.
C30_Created ==
    /\ last.method = "createBroadcaster" /\ last.accepts = 1
    /\ \E s, t \in DOMAIN peers :
          /\ ~peers[s].closed /\ peers[s].joined
          /\ SentTo(sent, s, "newPeer", last.arg.peerId) = 1
          /\ ~peers[t].closed /\ ~peers[t].joined

\* ------------------------------------------------------------------- C31
\* The producers of the broadcasters, and the consumers of session j for
\* producer p in a sequence of consumers.
BroadcasterProducers(P) == {p \in DOMAIN P : P[p].peer = 0}
ConsumersOf(C, p, j) == {c \in DOMAIN C : C[c].producer = p /\ C[c].peer = j}

\* Session j can be given a consumer of producer p: it can decode it and
\* holds a consuming transport.
Receives(j, p) ==
    HasConsuming(j) /\ Decodable(peers'[j].rtpCapabilities, producers'[p].kind)

\* C31: the step that stores the producer of a broadcaster starts one
\* paused consumer of it for every session joined at that moment and none
\* for a session that has not joined; the step that accepts a join starts
\* one for the joiner for every producer a broadcaster of the Room has; no
\* other step starts a consumer of a broadcaster's producer, so a session
\* never has two. Such a consumer is resumed only after its newConsumer
\* request, sent once, was answered. (A consumer is started for a session
\* that can decode the producer and holds a consuming transport.)
C31_BroadcasterFanOut ==
    [][LET new == DOMAIN consumers' \ DOMAIN consumers
           joins == last'.pc = "done" /\ last'.method = "join" /\ last'.accepts = 1
       IN /\ \A p \in BroadcasterProducers(producers') \ DOMAIN producers :
                \A j \in DOMAIN peers :
                   /\ Cardinality(ConsumersOf(consumers', p, j)) =
                         IF /\ peers[j].joined /\ ~peers[j].closed
                            /\ peers[j].room = broadcasters[producers'[p].broadcaster].room
                            /\ Receives(j, p)
                         THEN 1 ELSE 0
                   /\ \A c \in ConsumersOf(consumers', p, j) :
                         /\ consumers'[c].paused /\ consumers'[c].state = "consume"
                         /\ consumers'[c].by = "broadcast"
          /\ joins =>
                \A p \in BroadcasterProducers(producers) :
                   Cardinality(ConsumersOf(consumers', p, last'.peer) \cap new) =
                      IF /\ p \in MediaOffered(last'.peer)
                         /\ Receives(last'.peer, p)
                      THEN 1 ELSE 0
          /\ \A c \in new :
                consumers'[c].producer \in BroadcasterProducers(producers)
                   => joins /\ consumers'[c].peer = last'.peer
          /\ \A p \in BroadcasterProducers(producers'), j \in DOMAIN peers' :
                /\ Cardinality(ConsumersOf(consumers', p, j)) <= 1
                /\ \A c \in ConsumersOf(consumers', p, j) :
                      /\ consumers'[c].requests <= 1
                      /\ ~consumers'[c].paused =>
                            consumers'[c].acked /\ consumers'[c].requests = 1
      ]_vars

\* The consumer that the producer of a broadcaster started for a session
\* joined at that moment has been resumed, and a session that has not
\* joined has none.
C31_Witness ==
    \E c \in DOMAIN consumers, t \in DOMAIN peers :
        /\ consumers[c].producer \in BroadcasterProducers(producers)
        /\ consumers[c].by = "broadcast"
        /\ consumers[c].state = "resumed" /\ ~consumers[c].paused
        /\ ~peers[t].joined
        /\ ConsumersOf(consumers, consumers[c].producer, t) = {}

\* A session that joined after the broadcaster produced has its consumer.
C31_LateJoiner ==
    \E c \in DOMAIN consumers :
        /\ consumers[c].producer \in BroadcasterProducers(producers)
        /\ consumers[c].by = "join"
        /\ consumers[c].state = "resumed"

\* ------------------------------------------------------------------- C32
\* C32: a consumer of a session's producer p for another session B is
\* started either by the step that stores p, when B is joined at that
\* moment, or by the step that accepts B's join, when p is in its owner's
\* collection at that moment, and by no other step; whatever the order of
\* B's join and of the request, the pending engine call and the storing of
\* p, B never has two consumers of p. (A consumer is started for a session
\* that can decode the producer and holds a consuming transport.)
C32_OneAttemptPerPair ==
    [][LET new == DOMAIN consumers' \ DOMAIN consumers
           joins == last'.pc = "done" /\ last'.method = "join" /\ last'.accepts = 1
       IN /\ \A p \in DOMAIN producers' \ DOMAIN producers :
                producers'[p].peer # 0 =>
                   \A j \in DOMAIN peers :
                      /\ Cardinality(ConsumersOf(consumers', p, j)) =
                            IF j \in OtherJoined(producers'[p].peer) /\ Receives(j, p)
                            THEN 1 ELSE 0
                      /\ \A c \in ConsumersOf(consumers', p, j) :
                            consumers'[c].by = "produce"
          /\ joins =>
                \A p \in DOMAIN producers :
                   producers[p].peer # 0 =>
                      Cardinality(ConsumersOf(consumers', p, last'.peer) \cap new) =
                         IF p \in MediaOffered(last'.peer) /\ Receives(last'.peer, p)
                         THEN 1 ELSE 0
          /\ \A c \in new :
                consumers'[c].producer \in DOMAIN producers
                   => /\ joins /\ consumers'[c].peer = last'.peer
                      /\ consumers'[c].by = "join"
          /\ \A p \in DOMAIN producers', j \in DOMAIN peers' :
                Cardinality(ConsumersOf(consumers', p, j)) <= 1
      ]_vars

\* The join of a session that holds a consuming transport has just been
\* accepted while the produce of another, joined session is pending in the
\* engine.
C32_Witness ==
    \E k \in DOMAIN requests :
        /\ requests[k].pc = "produce" /\ requests[k].arg.kind = "audio"
        /\ last.pc = "done" /\ last.method = "join" /\ last.accepts = 1
        /\ last.peer # requests[k].peer
        /\ ~peers[requests[k].peer].closed
        /\ HasConsuming(last.peer)
        /\ peers[last.peer].rtpCapabilities = "audio"

\* The session that joined during the engine call got its consumer from
\* the fan-out of the produce; the session that joined after the producer
\* was stored got it from its join.
C32_ByProduce ==
    \E c \in DOMAIN consumers :
        /\ consumers[c].by = "produce" /\ producers[consumers[c].producer].peer # 0
        /\ last.method = "produce" /\ last.accepts = 1
C32_ByJoin ==
    \E c \in DOMAIN consumers :
        /\ consumers[c].by = "join" /\ producers[consumers[c].producer].peer # 0
        /\ last.method = "join" /\ last.peer = consumers[c].peer

\* ------------------------------------------------------------------- C33
\* A session is registered in its Room while its protoo Peer is open.
Registered(s) == s \in DOMAIN peers /\ ~peers[s].closed

InOpenRegisteredRoom(s) ==
    /\ ~roomObjs[peers[s].room].closed
    /\ rooms[roomObjs[peers[s].room].roomId] = peers[s].room

\* A session that took the place of an earlier session of its Room with
\* the same peerId.
Superseding(s) ==
    \E x \in 1..(s - 1) :
        peers[x].room = peers[s].room /\ peers[x].id = peers[s].id

\* C33: in every reachable state a session registered in a Room belongs to
\* a Room that is not closed and is still in the registry.
C33_Original ==
    \A s \in DOMAIN peers : Registered(s) => InOpenRegisteredRoom(s)

\* A connection arrived with the peerId of the Room's only session: the
\* superseding session is registered in a Room that is closed and no longer
\* in the registry.
C33_Witness ==
    \E s \in DOMAIN peers :
        /\ Registered(s) /\ Superseding(s)
        /\ roomObjs[peers[s].room].closed
        /\ rooms[roomObjs[peers[s].room].roomId] # peers[s].room
        /\ \A x \in 1..(s - 1) : peers[x].room = peers[s].room => peers[x].closed

\* What holds: a registered session that did not take the place of an
\* earlier one is in an open, registered Room, and so is a superseding
\* session when the Room held another session at that moment.
C33_NotSuperseding ==
    \A s \in DOMAIN peers :
        Registered(s) /\ ~InOpenRegisteredRoom(s) => Superseding(s)
C33_SupersedingShared ==
    \E s \in DOMAIN peers :
        /\ Registered(s) /\ Superseding(s) /\ InOpenRegisteredRoom(s)

\* ------------------------------------------------------------------- C34
\* C34: no session holds a consumer or a data consumer whose producer or
\* data producer belongs to that same session.
C34_NoSelfConsumption ==
    /\ \A c \in DOMAIN consumers :
          consumers[c].peer # 0 =>
             producers[consumers[c].producer].peer # consumers[c].peer
    /\ \A d \in DOMAIN dataConsumers :
          dataConsumers[d].peer # 0 /\ dataConsumers[d].dataProducer # BotDataProducer =>
             dataProducers[dataConsumers[d].dataProducer].peer # dataConsumers[d].peer

\* The fan-out of a produce has given another session a consumer while the
\* producing session, which is joined, holds a consuming transport and
\* could decode its own producer, has none.
C34_Witness ==
    \E c \in DOMAIN consumers :
        LET p == consumers[c].producer
            s == producers[p].peer
        IN /\ consumers[c].by = "produce" /\ s # 0
           /\ ~peers[s].closed /\ peers[s].joined /\ HasConsuming(s)
           /\ Decodable(peers[s].rtpCapabilities, producers[p].kind)
           /\ ConsumersOf(consumers, p, s) = {}

\* A session that sends chat data and could receive data itself has no
\* data consumer of its own data producer, while another session has one.
C34_DataWitness ==
    \E d \in DOMAIN dataConsumers :
        LET dp == dataConsumers[d].dataProducer
        IN /\ dp # BotDataProducer
           /\ LET s == dataProducers[dp].peer
              IN /\ s # 0 /\ ~peers[s].closed /\ peers[s].joined
                 /\ peers[s].sctpCapabilities
                 /\ \A x \in DOMAIN dataConsumers :
                       dataConsumers[x].dataProducer = dp => dataConsumers[x].peer # s

\* A session that joins after the others produced gets consumers of their
\* producers and none of its own collections, which are empty at that moment.
C34_JoinWitness ==
    /\ last.pc = "done" /\ last.method = "join" /\ last.accepts = 1
    /\ peers[last.peer].producers = {} /\ peers[last.peer].dataProducers = {}
    /\ \E c \in DOMAIN consumers :
          consumers[c].peer = last.peer /\ consumers[c].by = "join"

\* ------------------------------------------------------------------- C35
\* The sessions of Room rm whose Peer closes in the step.
Closing(rm) ==
    {s \in DOMAIN peers : peers[s].room = rm /\ ~peers[s].closed /\ peers'[s].closed}

\* C35: a closed Room stays closed; the close event of a session of a Room
\* that is already closed sends nothing, closes no transport and changes
\* neither the Rooms nor the registry; a registry entry is removed only in
\* the step that closes the Room it points to; and an open Room keeps its
\* registry entry, so the close of a Room never removes the entry of a
\* newer Room with the same id.
C35_CloseOnce ==
    [][/\ \A rm \in DOMAIN roomObjs :
             roomObjs[rm].closed =>
                /\ roomObjs'[rm].closed
                /\ Closing(rm) # {} =>
                      /\ sent' = EmptyBag
                      /\ transports' = transports
                      /\ roomObjs' = roomObjs
                      /\ rooms' = rooms
       /\ \A id \in RoomIds :
             rooms[id] # 0 /\ rooms'[id] # rooms[id] =>
                /\ ~roomObjs[rooms[id]].closed
                /\ roomObjs'[rooms[id]].closed
                /\ rooms'[id] = 0
       /\ \A rm \in DOMAIN roomObjs' :
             IF roomObjs'[rm].closed
             THEN rooms'[roomObjs'[rm].roomId] # rm
             ELSE rooms'[roomObjs'[rm].roomId] = rm
      ]_vars

\* The last session of a closed Room has closed while a newer Room with the
\* same id is open and registered.
C35_Witness ==
    \E rm \in DOMAIN roomObjs, s \in DOMAIN peers :
        /\ roomObjs[rm].closed
        /\ peers[s].room = rm /\ peers[s].closed /\ Superseding(s)
        /\ rooms[roomObjs[rm].roomId] > rm
        /\ ~roomObjs[rooms[roomObjs[rm].roomId]].closed

\* A joined session is left in a closed Room.
C35_JoinedInClosedRoom ==
    \E s \in DOMAIN peers :
        /\ roomObjs[peers[s].room].closed /\ ~peers[s].closed /\ peers[s].joined

\* ------------------------------------------------------------------- C36
\* Session j can be given a data consumer: it declared sctpCapabilities and
\* holds a consuming transport.
ReceivesData(j) == peers'[j].sctpCapabilities /\ HasConsuming(j)

DataConsumersOf(D, dp, j) ==
    {d \in DOMAIN D : D[d].dataProducer = dp /\ D[d].peer = j}

\* The step stores a data producer of a session whose label is in labels
\* and starts a data consumer of it for every other session joined at that
\* moment.
ProduceDataReaches(labels) ==
    \A dp \in DOMAIN dataProducers' \ DOMAIN dataProducers :
        dataProducers'[dp].peer # 0 /\ dataProducers'[dp].label \in labels =>
           \A j \in OtherJoined(dataProducers'[dp].peer) :
              ReceivesData(j) => DataConsumersOf(dataConsumers', dp, j) # {}

\* The step accepts a join and starts, for the joiner, a data consumer of
\* every data producer of the other joined sessions not labelled 'bot'.
JoinReaches ==
    last'.pc = "done" /\ last'.method = "join" /\ last'.accepts = 1 =>
       \A dp \in DataOffered(last'.peer) :
          dataProducers[dp].label # "bot" /\ ReceivesData(last'.peer) =>
             DataConsumersOf(dataConsumers', dp, last'.peer)
                \ DOMAIN dataConsumers # {}

\* C36: for a data producer of any label other than 'bot', a session joined
\* before the produceData is given a data consumer by the produceData and a
\* session that joins after it is given one by its join.
C36_Original ==
    [][ProduceDataReaches({"chat", "other"}) /\ JoinReaches]_vars

\* A produceData with a label that is neither 'chat' nor 'bot' has just been
\* accepted, and a session that was joined, declared sctpCapabilities and
\* holds a consuming transport has no data consumer of the new data producer.
C36_Witness ==
    /\ last.pc = "done" /\ last.method = "produceData" /\ last.accepts = 1
    /\ \E dp \in peers[last.peer].dataProducers :
          /\ dataProducers[dp].label = "other"
          /\ \E j \in OtherJoined(last.peer) :
                /\ peers[j].sctpCapabilities /\ HasConsuming(j)
                /\ DataConsumersOf(dataConsumers, dp, j) = {}

\* The session that joined after the same produceData has a data consumer
\* of it while the one that was joined before still has none.
C36_OrderMatters ==
    \E dp \in DOMAIN dataProducers, j, n \in DOMAIN peers :
        /\ dataProducers[dp].label = "other" /\ dataProducers[dp].peer \notin {0, j, n}
        /\ j # n /\ peers[j].joined /\ ~peers[j].closed
        /\ peers[j].sctpCapabilities /\ HasConsuming(j)
        /\ DataConsumersOf(dataConsumers, dp, j) = {}
        /\ DataConsumersOf(dataConsumers, dp, n) # {}

\* What holds: the order does not matter for the label 'chat', and a join
\* reaches every data producer not labelled 'bot'.
C36_ChatPart ==
    [][ProduceDataReaches({"chat"}) /\ JoinReaches]_vars
C36_ChatBoth ==
    \E dp \in DOMAIN dataProducers, j, n \in DOMAIN peers :
        /\ dataProducers[dp].label = "chat" /\ j # n
        /\ DataConsumersOf(dataConsumers, dp, j) # {}
        /\ DataConsumersOf(dataConsumers, dp, n) # {}
        /\ last.method = "join" /\ last.peer = n

\* ------------------------------------------------------------------- C37
\* The Rooms that are open and in the registry.
OpenRegistered ==
    {rm \in DOMAIN roomObjs :
        ~roomObjs[rm].closed /\ rooms[roomObjs[rm].roomId] = rm}

Sessions(rm) == {s \in DOMAIN peers : peers[s].room = rm /\ ~peers[s].closed}

\* C37: no open Room is in the registry with zero sessions. (A Room enters
\* the registry in the step that also admits the session of the connection
\* request that created it.)
C37_Original ==
    \A rm \in OpenRegistered : Sessions(rm) # {}

\* The connection request that created the Room has been processed, the
\* creation of its session failed, and the Room is open, registered and
\* without a session.
C37_Witness ==
    \E rm \in OpenRegistered, c \in DOMAIN conns :
        /\ Sessions(rm) = {}
        /\ conns[c].created /\ conns[c].room = rm /\ conns[c].status = "accepted"
        /\ conns[c].peerId = "a,b"
        /\ c \notin {queue[i] : i \in DOMAIN queue}

\* What holds: an open, registered Room without sessions never had one; a
\* Room whose last session closes is closed and leaves the registry.
C37_ClosePart ==
    \A rm \in OpenRegistered :
        Sessions(rm) = {} => \A s \in DOMAIN peers : peers[s].room # rm
C37_LastClosed ==
    \E rm \in DOMAIN roomObjs :
        /\ roomObjs[rm].closed /\ rooms[roomObjs[rm].roomId] = 0
        /\ \E s \in DOMAIN peers : peers[s].room = rm
        /\ \A s \in DOMAIN peers : peers[s].room = rm => peers[s].closed
        /\ \A s \in DOMAIN peers : peers[s].room = rm => ~Superseding(s)

\* ------------------------------------------------------------------- C38
\* The connection requests that went into the queue (one without roomId or
\* peerId is rejected with 400 before it).
Enqueued == {c \in DOMAIN conns : conns[c].code # 400}

InQueue == {queue[i] : i \in DOMAIN queue}

\* The requests leave the queue in arrival order, and a request at the head
\* of the queue whose room id is not registered has started a creation of
\* its own.
ArrivalOrder ==
    /\ \A c \in Enqueued : (conns[c].status = "queued") = (c \in InQueue)
    /\ \A i, j \in DOMAIN queue : i < j => queue[i] < queue[j]
    /\ \A c, d \in Enqueued : c < d /\ c \in InQueue => d \in InQueue
    /\ queue # <<>> => creating /\ rooms[conns[Head(queue)].roomId] = 0

\* The step in which a Room creation fails rejects the request at the head
\* of the queue, and no other, with 500; it makes no Room and leaves the
\* room id of the request unregistered.
FailureRejectsOne ==
    \A c \in Enqueued :
        conns[c].status = "queued" /\ conns'[c].status = "rejected" =>
           /\ c = Head(queue) /\ creating /\ conns'[c].code = 500
           /\ Len(roomObjs') = Len(roomObjs) /\ rooms'[conns[c].roomId] = 0
           /\ \A d \in Enqueued \ {c} :
                 conns'[d].status = "rejected" => conns[d].status = "rejected"

\* C38: every enqueued connection request ends accepted or rejected,
\* whatever happened to the Room creations before it (given that every
\* Room creation returns or throws); the requests leave the queue in
\* arrival order; a failed creation rejects its own request only and
\* registers nothing, so that the next request for that room id, once at
\* the head of the queue, starts a creation of its own.
C38_QueueNotStalled ==
    /\ \A c \in 1..MaxConns :
          (c \in DOMAIN conns /\ conns[c].status = "queued")
             ~> (c \in DOMAIN conns
                    /\ conns[c].status \in {"accepted", "rejected"})
    /\ []ArrivalOrder
    /\ [][FailureRejectsOne]_vars

\* A Room creation failed, its request was rejected with 500, and a later
\* request for the same room id made the Room and was admitted to it.
C38_Witness ==
    \E c, d \in DOMAIN conns :
        /\ c < d /\ conns[c].roomId = conns[d].roomId
        /\ conns[c].status = "rejected" /\ conns[c].code = 500
        /\ c \in conns[d].waiting
        /\ conns[d].status = "accepted" /\ conns[d].created
        /\ rooms[conns[d].roomId] = conns[d].room

====
